---- MODULE Spec2Model ----
(***************************************************************************)
(* Model of the tombstone store of the tskv storage engine                 *)
(* (src/tskv/src/tsm/tombstone.rs): one tombstone file on disk, one        *)
(* TsmTombstone instance over it, and the tasks that call its operations.  *)
(***************************************************************************)
EXTENDS Integers, Sequences, FiniteSets, TLC

(* ------------------------------ bounds -------------------------------- *)

\* Field ids used by callers are 1..MaxFieldId.
MaxFieldId == 3
\* Timestamps used by callers are MinTs..MaxTs.
MaxTs == 2
\* The tombstone file holds at most MaxRecords records.
MaxRecords == 2
\* A file found on disk before the first open holds at most MaxFileLen records.
MaxFileLen == 2
\* With two concurrent callers the file holds at most MaxConcRecords records.
MaxConcRecords == 2

\* Vnode ids, node ids and replica-set ids of the CopyVnode statements: 1..n.
MaxVnodeId == 2

MaxNodeId == 2

MaxReplSetId == 3

\* TargetClients created from the NetworkConn, and connections dialled.
MaxClients == 2

MaxDials == 3

\* Databases of the VersionSet, and version edits their writers add.
MaxDbs == 2

MaxEdits == 3

\* Databases the factory creates.
MaxCreated == 3

\* Versions (tsfamilies) given to VersionSet::new.
MaxTfId == 3

(* ------------------------- program constants -------------------------- *)

ENTRY_LEN == 24

(* ------------------------------ inputs -------------------------------- *)

MinTs == 0 - 1

FieldIds == 1..MaxFieldId

Timestamps == MinTs..MaxTs

\* Every TimeRange value over the timestamps, min_ts > max_ts included
\* (the struct does not forbid it and the tests build such values).
AllRanges == [min_ts : Timestamps, max_ts : Timestamps]

\* The ranges with min_ts <= max_ts.
WellFormed == {r \in AllRanges : r.min_ts <= r.max_ts}

\* No bloom filter (Option::None).
NoBloom == [some |-> FALSE, contains |-> {}]

\* A bloom filter is modelled by the set of field ids its `contains` accepts
\* (false positives are members of that set).
Bloom(S) == [some |-> TRUE, contains |-> S]

Tasks == {1, 2}

NoTask == 0

(* --------------------------- byte encoding ---------------------------- *)

\* u64::to_be_bytes / i64::to_be_bytes for values of magnitude below 2^15:
\* six sign-extension bytes, then the two low bytes, most significant first.
to_be_bytes(x) ==
    [i \in 1..8 |->
        IF i <= 6 THEN (IF x < 0 THEN 255 ELSE 0)
        ELSE IF i = 7 THEN (x % 65536) \div 256
        ELSE x % 256]

\* A value too large for the model's integers (2^24 or more).
HugeValue == 256 * 65536

\* byte_utils::decode_be_u64 over 8 bytes.
decode_be_u64(b) ==
    IF \E i \in 1..5 : b[i] # 0
    THEN HugeValue
    ELSE b[6] * 65536 + b[7] * 256 + b[8]

\* byte_utils::decode_be_i64 over 8 bytes (two's complement).
decode_be_i64(b) ==
    IF b[1] < 128
    THEN decode_be_u64(b)
    ELSE IF \E i \in 1..5 : b[i] # 255
         THEN 0 - HugeValue
         ELSE (b[6] * 65536 + b[7] * 256 + b[8]) - HugeValue

\* Subsequence data[lo..hi) of the source, as a sequence indexed from 1.
Slice(data, lo, hi) == [i \in 1..(hi - lo) |-> data[lo + i]]

(* ---------------------------- TimeRange ------------------------------- *)

TimeRange_new(min_ts, max_ts) == [min_ts |-> min_ts, max_ts |-> max_ts]

\* TimeRange::overlaps
TimeRange_overlaps(t, range) ==
    t.min_ts <= range.max_ts /\ t.max_ts >= range.min_ts

\* The timestamps a range denotes.
Points(r) == {ts \in Timestamps : r.min_ts <= ts /\ ts <= r.max_ts}

\* Two ranges intersect when they share a timestamp.
Intersects(q, r) == Points(q) \cap Points(r) # {}

(* --------------------------- the cache map ---------------------------- *)

\* HashMap<FieldId, Vec<TimeRange>>: a function whose domain is the key set.
EmptyMap == [k \in {} |-> <<>>]

\* Faulty variant of entry_push: the Vec of the field id is replaced, not extended.
entry_push_replace(tombstones, field_id, time_range) ==
    [k \in (DOMAIN tombstones) \cup {field_id} |->
        IF k = field_id THEN <<time_range>> ELSE tombstones[k]]

\* Faulty variant of entry_push: a range equal to the last one of the Vec is taken
\* for a duplicate and the last one is removed instead.
entry_push_dedup(tombstones, field_id, time_range) ==
    [k \in (DOMAIN tombstones) \cup {field_id} |->
        IF k = field_id
        THEN (IF k \in DOMAIN tombstones
              THEN (IF tombstones[k] # <<>>
                       /\ tombstones[k][Len(tombstones[k])] = time_range
                    THEN SubSeq(tombstones[k], 1, Len(tombstones[k]) - 1)
                    ELSE Append(tombstones[k], time_range))
              ELSE <<time_range>>)
        ELSE tombstones[k]]

\* Faulty variant of entry_push: a range that overlaps the last one of the
\* Vec is coalesced with it into one entry.
entry_push_coalesce(tombstones, field_id, time_range) ==
    [k \in (DOMAIN tombstones) \cup {field_id} |->
        IF k = field_id
        THEN (IF k \in DOMAIN tombstones
              THEN (LET n == Len(tombstones[k])
                    IN IF n > 0 /\ TimeRange_overlaps(tombstones[k][n], time_range)
                       THEN [tombstones[k] EXCEPT ![n] =
                               TimeRange_new(
                                 IF time_range.min_ts < @.min_ts
                                 THEN time_range.min_ts ELSE @.min_ts,
                                 IF time_range.max_ts > @.max_ts
                                 THEN time_range.max_ts ELSE @.max_ts)]
                       ELSE Append(tombstones[k], time_range))
              ELSE <<time_range>>)
        ELSE tombstones[k]]

\* tombstones.entry(field_id).or_default().push(time_range)
entry_push(tombstones, field_id, time_range) ==
    [k \in (DOMAIN tombstones) \cup {field_id} |->
        IF k = field_id
        THEN (IF k \in DOMAIN tombstones
              THEN Append(tombstones[k], time_range)
              ELSE <<time_range>>)
        ELSE tombstones[k]]

\* tombstones.get(&field_id): the Vec, or the empty sequence for None.
map_get(tombstones, field_id) ==
    IF field_id \in DOMAIN tombstones THEN tombstones[field_id] ELSE <<>>

(* ----------------------------- load_all ------------------------------- *)

\* A record of the tombstone file: its payload bytes and what read_record
\* answers for it: "ok" (Ok(r)), "crc" (Err(RecordFileHashCheckFailed)) or
\* "io" (any other Err).
Record(data, st) == [data |-> data, st |-> st]

\* Faulty variant of write_buf: max_ts is written at offset 8 and min_ts at offset 16.
write_buf_swapped(field_id, time_range) ==
    to_be_bytes(field_id) \o to_be_bytes(time_range.max_ts)
        \o to_be_bytes(time_range.min_ts)

\* The 24-byte payload add_range builds in write_buf.
write_buf(field_id, time_range) ==
    to_be_bytes(field_id) \o to_be_bytes(time_range.min_ts)
        \o to_be_bytes(time_range.max_ts)

RECURSIVE load_loop_swapped(_, _, _)
\* Faulty variant of load_loop: max_ts is decoded from offset 8 and min_ts from
\* offset 16.
load_loop_swapped(records, i, tombstones) ==
    IF i > Len(records)
    THEN [ok |-> TRUE, tombstones |-> tombstones]
    ELSE IF records[i].st = "crc"
    THEN load_loop_swapped(records, i + 1, tombstones)
    ELSE IF records[i].st = "io"
    THEN [ok |-> FALSE, tombstones |-> tombstones]
    ELSE IF Len(records[i].data) < ENTRY_LEN
    THEN [ok |-> TRUE, tombstones |-> tombstones]
    ELSE LET data == records[i].data
             field_id == decode_be_u64(Slice(data, 0, 8))
             max_ts == decode_be_i64(Slice(data, 8, 16))
             min_ts == decode_be_i64(Slice(data, 16, 24))
         IN load_loop_swapped(records, i + 1,
                entry_push(tombstones, field_id, TimeRange_new(min_ts, max_ts)))

RECURSIVE load_loop_crc_break(_, _, _)
\* Faulty variant of load_loop: a record that fails its CRC ends the loop.
load_loop_crc_break(records, i, tombstones) ==
    IF i > Len(records)
    THEN [ok |-> TRUE, tombstones |-> tombstones]
    ELSE IF records[i].st = "crc"
    THEN [ok |-> TRUE, tombstones |-> tombstones]
    ELSE IF records[i].st = "io"
    THEN [ok |-> FALSE, tombstones |-> tombstones]
    ELSE IF Len(records[i].data) < ENTRY_LEN
    THEN [ok |-> TRUE, tombstones |-> tombstones]
    ELSE LET data == records[i].data
             field_id == decode_be_u64(Slice(data, 0, 8))
             min_ts == decode_be_i64(Slice(data, 8, 16))
             max_ts == decode_be_i64(Slice(data, 16, 24))
         IN load_loop_crc_break(records, i + 1,
                entry_push(tombstones, field_id, TimeRange_new(min_ts, max_ts)))

RECURSIVE load_loop_short_continue(_, _, _)
\* Faulty variant of load_loop: a record shorter than an entry is skipped and
\* the loop goes on.
load_loop_short_continue(records, i, tombstones) ==
    IF i > Len(records)
    THEN [ok |-> TRUE, tombstones |-> tombstones]
    ELSE IF records[i].st = "crc"
    THEN load_loop_short_continue(records, i + 1, tombstones)
    ELSE IF records[i].st = "io"
    THEN [ok |-> FALSE, tombstones |-> tombstones]
    ELSE IF Len(records[i].data) < ENTRY_LEN
    THEN load_loop_short_continue(records, i + 1, tombstones)
    ELSE LET data == records[i].data
             field_id == decode_be_u64(Slice(data, 0, 8))
             min_ts == decode_be_i64(Slice(data, 8, 16))
             max_ts == decode_be_i64(Slice(data, 16, 24))
         IN load_loop_short_continue(records, i + 1,
                entry_push(tombstones, field_id, TimeRange_new(min_ts, max_ts)))

RECURSIVE load_loop(_, _, _)
\* The loop of load_all from record i on; ok = FALSE is `return Err(e)`.
load_loop(records, i, tombstones) ==
    IF i > Len(records)
    THEN [ok |-> TRUE, tombstones |-> tombstones]        \* Err(Error::Eof) => break
    ELSE IF records[i].st = "crc"
    THEN load_loop(records, i + 1, tombstones)           \* => continue
    ELSE IF records[i].st = "io"
    THEN [ok |-> FALSE, tombstones |-> tombstones]       \* Err(e) => return Err(e)
    ELSE IF Len(records[i].data) < ENTRY_LEN
    THEN [ok |-> TRUE, tombstones |-> tombstones]        \* block length too small: break
    ELSE LET data == records[i].data
             field_id == decode_be_u64(Slice(data, 0, 8))
             min_ts == decode_be_i64(Slice(data, 8, 16))
             max_ts == decode_be_i64(Slice(data, 16, 24))
         IN load_loop(records, i + 1,
                      entry_push(tombstones, field_id, TimeRange_new(min_ts, max_ts)))

load_all(records, tombstones) == load_loop(records, 1, tombstones)

(* ------------------------- read-only operations ----------------------- *)

None == [some |-> FALSE, val |-> <<>>]

Some(v) == [some |-> TRUE, val |-> v]

is_empty(tombstones) == DOMAIN tombstones = {}

get_cloned_time_ranges(tombstones, field_id) ==
    IF field_id \in DOMAIN tombstones THEN Some(tombstones[field_id]) ELSE None

overlaps(tombstones, field_id, time_range) ==
    /\ field_id \in DOMAIN tombstones
    /\ \E i \in 1..Len(tombstones[field_id]) :
          TimeRange_overlaps(tombstones[field_id][i], time_range)

\* Faulty variant of get_overlapped_time_ranges: the loop returns at the
\* first range that overlaps, as the loop of overlaps does.
get_overlapped_first(tombstones, field_id, time_range) ==
    IF field_id \in DOMAIN tombstones
    THEN LET trs == SelectSeq(tombstones[field_id],
                              LAMBDA t : TimeRange_overlaps(t, time_range))
         IN IF trs = <<>> THEN None ELSE Some(<<trs[1]>>)
    ELSE None

get_overlapped_time_ranges(tombstones, field_id, time_range) ==
    IF field_id \in DOMAIN tombstones
    THEN LET trs == SelectSeq(tombstones[field_id],
                              LAMBDA t : TimeRange_overlaps(t, time_range))
         IN IF trs = <<>> THEN None ELSE Some(trs)
    ELSE None

(* ----------------------------- DataBlock ------------------------------ *)

\* A DataBlock is modelled by its timestamp column, strictly increasing.
\* DataBlock::time_range: (first, last) timestamp, None for an empty block.
DataBlock_time_range(data_block) ==
    IF data_block = <<>> THEN None
    ELSE Some(TimeRange_new(data_block[1], data_block[Len(data_block)]))

\* DataBlock::exclude: drops the points whose timestamp is inside the range.
DataBlock_exclude(data_block, t) ==
    SelectSeq(data_block, LAMBDA ts : ~(t.min_ts <= ts /\ ts <= t.max_ts))

RECURSIVE exclude_each(_, _, _, _)
\* time_ranges.iter().filter(|t| t.overlaps(time_range)).for_each(|t| data_block.exclude(t))
exclude_each(time_ranges, i, time_range, data_block) ==
    IF i > Len(time_ranges) THEN data_block
    ELSE exclude_each(time_ranges, i + 1, time_range,
                      IF TimeRange_overlaps(time_ranges[i], time_range)
                      THEN DataBlock_exclude(data_block, time_ranges[i])
                      ELSE data_block)

\* Faulty variant of data_block_exclude_tombstones: only the first overlapping range
\* of the field is excluded.
data_block_exclude_first(tombstones, field_id, data_block) ==
    LET tr == DataBlock_time_range(data_block)
    IN IF tr.some /\ field_id \in DOMAIN tombstones
       THEN LET hit == SelectSeq(tombstones[field_id],
                                 LAMBDA t : TimeRange_overlaps(t, tr.val))
            IN IF hit = <<>> THEN data_block
               ELSE DataBlock_exclude(data_block, hit[1])
       ELSE data_block

\* The block as data_block_exclude_tombstones leaves it.
data_block_exclude_tombstones(tombstones, field_id, data_block) ==
    LET tr == DataBlock_time_range(data_block)
    IN IF tr.some /\ field_id \in DOMAIN tombstones
       THEN exclude_each(tombstones[field_id], 1, tr.val, data_block)
       ELSE data_block

\* DataBlock::exclude_time_ranges: a new block without the points inside any
\* of the ranges.
DataBlock_exclude_time_ranges(data_block, time_ranges) ==
    SelectSeq(data_block,
              LAMBDA ts : ~(\E i \in 1..Len(time_ranges) :
                              time_ranges[i].min_ts <= ts /\ ts <= time_ranges[i].max_ts))

data_block_exclude_tombstones_new(tombstones, field_id, data_block) ==
    LET block_tr == DataBlock_time_range(data_block)
    IN IF ~block_tr.some THEN None
       ELSE IF field_id \notin DOMAIN tombstones THEN None
       ELSE LET tombstone == SelectSeq(tombstones[field_id],
                                       LAMBDA tr : TimeRange_overlaps(tr, block_tr.val))
            IN IF tombstone = <<>> THEN None
               ELSE Some(DataBlock_exclude_time_ranges(data_block, tombstone))

(* ------------------------------- state -------------------------------- *)

VARIABLES
    file,         \* the records of the tombstone file, in append order
    exists,       \* file_manager::try_exists(&path)
    synced,       \* how many leading records of the file a sync made durable
    inst,         \* "closed" (no instance) or "open" (a TsmTombstone exists)
    open_res,     \* what the last TsmTombstone::open returned: "none", "Ok", "ErrOpen", "ErrLoad"
    tombstones,   \* TsmTombstone.tombstones: HashMap<FieldId, Vec<TimeRange>>
    writer,       \* TsmTombstone.writer: "None" or "Some"
    writer_lock,  \* the task holding the async writer mutex, or NoTask
    map_lock,     \* the task holding the tombstones mutex, or NoTask
    pc,           \* each task's position in the operation it runs
    args,         \* each task's call: operation, arguments and loop index
    ret,          \* each task's return value once its call is done
    acked,        \* history: tombstones whose add_range returned Ok on this instance
    flushed,      \* history: tombstones acked before a flush that returned Ok
    lost,         \* history: tombstones acked before the last crash and absent after it
    rt,           \* history: progress of the run add_range, flush, drop, open
    idem,         \* history: the last add_range that returned Ok and the state it left
    gen,          \* history: 0 before the first instance, 1 for it, 2 for any later one
    writers,      \* history: record_file::Writer objects the instance has opened
    closed        \* history: the map of the last instance when it was dropped
                  \* with every record synced

\* CopyVnodeTask::execute and what it calls
VARIABLES
    using_raft,   \* coord.using_raft_replication()
    vnode_infos,  \* the metadata: vnode id -> VnodeAllInfo (its repl_set_id)
    lookups,      \* get_vnode_all_info calls of the run
    cmds,         \* the commands the run passed to coord.vnode_manager, in order
    exec          \* the run of execute: position, statement, replica_id, result

\* NetworkConn and its TargetClients
VARIABLES
    conn_maps,    \* the conn_map of each NetworkConn::new: address -> Channel
    clients,      \* the TargetClients: target, target_node, conn (its conn_map)
    rpc,          \* the RPC of each client: position, kind, channel, request, result
    dials,        \* connections made by connect(), the number of the last Channel
    called,       \* history: the addresses an RPC was started to
    dialled       \* history: the addresses connect() was called for

\* VersionSet and its databases
VARIABLES
    dbs,          \* VersionSet.dbs: owner -> Database (its edits and files)
    db_locks,     \* the RwLock of each Database: readers, writer
    snap,         \* the run of snapshot: position, iterator, results so far
    next_id,      \* the last id given to a version edit or column file
    made,         \* databases the factory has created, the id of the last one
    vs_call,      \* the last create_db or delete_db call and what it returned
    vs_new        \* the run of VersionSet::new: its inputs, position, dbs, result

disk == <<file, exists, synced>>

vs_set_vars == <<dbs, db_locks, snap, next_id, made, vs_call>>

vs_vars == <<vs_set_vars, vs_new>>

net_vars == <<conn_maps, clients, rpc, dials, called, dialled>>

copy_vars == <<using_raft, vnode_infos, lookups, cmds, exec>>

\* The state of the components the tombstone operations do not touch.
others == <<copy_vars, net_vars, vs_vars>>

object == <<inst, open_res, tombstones, writer>>

locks == <<writer_lock, map_lock>>

tasks == <<pc, args, ret>>

history == <<acked, flushed, lost, rt, idem, gen, writers, closed>>

vars == <<file, exists, synced, inst, open_res, tombstones, writer,
          writer_lock, map_lock, pc, args, ret, acked, flushed, lost, rt, idem, gen,
          writers, closed, using_raft, vnode_infos, lookups, cmds, exec,
          conn_maps, clients, rpc, dials, called, dialled,
          dbs, db_locks, snap, next_id, made, vs_call, vs_new>>

NoArgs ==
    [op |-> "none", field_ids |-> <<>>, time_range |-> TimeRange_new(0, 0),
     bloom_filter |-> NoBloom, idx |-> 0, field_id |-> 0, data_block |-> <<>>,
     file0 |-> <<>>, map0 |-> EmptyMap]

NoRet == [res |-> "none", val |-> <<>>]

NoRt == [st |-> "fresh", field_ids |-> <<>>, time_range |-> TimeRange_new(0, 0)]

OffRt == [NoRt EXCEPT !.st = "off"]

NoIdem ==
    [st |-> "none", field_ids |-> <<>>, time_range |-> TimeRange_new(0, 0),
     bloom_filter |-> NoBloom, map1 |-> EmptyMap, file1 |-> <<>>]

\* No statement is being executed.
NoExec ==
    [pc |-> "idle", vnode_id |-> 0, node_id |-> 0, replica_id |-> 0,
     lookup_res |-> "none", cmd_res |-> "none", res |-> "none"]

\* A coordinator without raft replication and without vnodes, no run.
InitCopyIdle ==
    /\ using_raft = FALSE
    /\ vnode_infos = EmptyMap
    /\ lookups = 0
    /\ cmds = <<>>
    /\ exec = NoExec

\* The conn_map created by NetworkConn::new.
TheConn == 1

\* One NetworkConn with an empty conn_map, no client.
InitNet ==
    /\ conn_maps = <<EmptyMap>>
    /\ clients = <<>>
    /\ rpc = <<>>
    /\ dials = 0
    /\ called = {}
    /\ dialled = {}

\* The owners ("tenant.database") of the databases.
Owners == 1..MaxDbs

\* No snapshot is running.
NoSnap ==
    [pc |-> "idle", todo |-> {}, cur |-> 0, version_edits |-> <<>>,
     file_metas |-> EmptyMap, visits |-> [o \in Owners |-> 0], stable |-> TRUE]

\* No call of create_db or delete_db has been made.
NoCall == [op |-> "none", owner |-> 0, res |-> "none", handle |-> 0]

\* VersionSet::new is not running.
NoNew ==
    [pc |-> "idle", ver_set |-> EmptyMap, meta |-> EmptyMap, todo |-> {}, cur |-> 0,
     schema |-> "none", dbs |-> EmptyMap, made |-> 0, res |-> "none", cause |-> "none"]

\* VersionSet::empty: no database.
InitVersionSet ==
    /\ dbs = EmptyMap
    /\ db_locks = [o \in Owners |-> [readers |-> 0, writer |-> FALSE]]
    /\ snap = NoSnap
    /\ next_id = 0
    /\ made = 0
    /\ vs_call = NoCall
    /\ vs_new = NoNew

\* The state of an empty directory before the first open.
InitTombstone ==
    /\ synced = 0
    /\ inst = "closed"
    /\ open_res = "none"
    /\ tombstones = EmptyMap
    /\ writer = "None"
    /\ writer_lock = NoTask
    /\ map_lock = NoTask
    /\ pc = [t \in Tasks |-> "idle"]
    /\ args = [t \in Tasks |-> NoArgs]
    /\ ret = [t \in Tasks |-> NoRet]
    /\ acked = {}
    /\ flushed = {}
    /\ lost = {}
    /\ rt = NoRt
    /\ idem = NoIdem
    /\ gen = 0
    /\ writers = 0
    /\ closed = None

InitCommon ==
    /\ InitTombstone
    /\ InitCopyIdle
    /\ InitNet
    /\ InitVersionSet

Init ==
    /\ file = <<>>
    /\ exists = FALSE
    /\ InitCommon

(* ------------------------- open, drop, crash -------------------------- *)

\* The (field id, range) pairs the map holds.
Entries(m) == UNION {{<<f, m[f][i]>> : i \in 1..Len(m[f])} : f \in DOMAIN m}

\* Faulty variant of open_ok: the writer is opened, and the file created,
\* whether the file exists or not.
open_ok_eager ==
    /\ inst = "closed"
    /\ LET loaded == load_all(file, EmptyMap)
       IN /\ (exists => loaded.ok)
          /\ tombstones' = (IF exists THEN loaded.tombstones ELSE EmptyMap)
    /\ writer' = "Some" /\ exists' = TRUE
    /\ inst' = "open" /\ open_res' = "Ok"
    /\ rt' = (IF rt.st = "dropped" THEN [rt EXCEPT !.st = "reopened"]
              ELSE IF rt.st = "fresh" THEN rt ELSE OffRt)
    /\ idem' = (IF idem.st = "two_dropped" THEN [idem EXCEPT !.st = "two_reopened"]
                ELSE NoIdem)
    /\ gen' = (IF gen = 0 THEN 1 ELSE 2)
    /\ writers' = 1
    /\ UNCHANGED <<file, synced, locks, tasks, acked, flushed, lost, closed, others>>

\* TsmTombstone::open succeeding: no file gives an empty map and no writer;
\* a file is read by load_all and gets a writer.
open_ok ==
    /\ inst = "closed"
    /\ LET loaded == load_all(file, EmptyMap)
       IN /\ (exists => loaded.ok)
          /\ tombstones' = (IF exists THEN loaded.tombstones ELSE EmptyMap)
    /\ writer' = (IF exists THEN "Some" ELSE "None")
    /\ inst' = "open" /\ open_res' = "Ok"
    /\ rt' = (IF rt.st = "dropped" THEN [rt EXCEPT !.st = "reopened"]
              ELSE IF rt.st = "fresh" THEN rt ELSE OffRt)
    /\ idem' = (IF idem.st = "two_dropped" THEN [idem EXCEPT !.st = "two_reopened"]
                ELSE NoIdem)
    /\ gen' = (IF gen = 0 THEN 1 ELSE 2)
    /\ writers' = (IF exists THEN 1 ELSE 0)
    /\ UNCHANGED <<disk, locks, tasks, acked, flushed, lost, closed, others>>

\* TsmTombstone::open returns an error and no instance is built.
open_fail(res) ==
    /\ inst = "closed"
    /\ exists
    /\ inst' = "closed" /\ open_res' = res
    /\ rt' = OffRt /\ idem' = NoIdem
    /\ UNCHANGED <<disk, tombstones, writer, locks, tasks, acked, flushed, lost, gen,
                   writers, closed, others>>

\* TsmTombstone::open failing in Reader::open(..).await? or Writer::open(..).await?
open_err == open_fail("ErrOpen")

\* TsmTombstone::open failing in Self::load_all(..).await?
open_load_err ==
    /\ ~load_all(file, EmptyMap).ok
    /\ open_fail("ErrLoad")

\* drop(tombstone): possible when no call borrows the instance.
drop ==
    /\ inst = "open"
    /\ \A t \in Tasks : pc[t] = "idle"
    /\ inst' = "closed"
    /\ tombstones' = EmptyMap
    /\ writer' = "None"
    /\ rt' = (IF rt.st = "flushed" THEN [rt EXCEPT !.st = "dropped"]
              ELSE IF rt.st = "fresh" THEN rt ELSE OffRt)
    /\ idem' = (IF idem.st = "two" THEN [idem EXCEPT !.st = "two_dropped"] ELSE NoIdem)
    /\ acked' = {}
    /\ lost' = {}
    /\ writers' = 0
    /\ closed' = (IF synced = Len(file) THEN Some(tombstones) ELSE None)
    /\ UNCHANGED <<disk, open_res, locks, tasks, flushed, gen, others>>

\* The tombstones the records of a file decode to, whatever their state.
RecordEntries(records) ==
    {<<decode_be_u64(Slice(records[i].data, 0, 8)),
       TimeRange_new(decode_be_i64(Slice(records[i].data, 8, 16)),
                     decode_be_i64(Slice(records[i].data, 16, 24)))>> :
        i \in {j \in 1..Len(records) : Len(records[j].data) >= ENTRY_LEN}}

\* A crash of the process and the machine: every task and the instance are
\* gone, and of the records written since the last sync any suffix is lost.
crash ==
    /\ \E n \in synced..Len(file) :
          /\ file' = SubSeq(file, 1, n)
          /\ exists' \in (IF n = 0 THEN {exists, FALSE} ELSE {TRUE})
          /\ lost' = acked \ RecordEntries(SubSeq(file, 1, n))
    /\ (inst = "open" \/ Len(file) > synced)
    /\ inst' = "closed"
    /\ tombstones' = EmptyMap
    /\ writer' = "None"
    /\ writer_lock' = NoTask /\ map_lock' = NoTask
    /\ pc' = [t \in Tasks |-> "idle"]
    /\ args' = [t \in Tasks |-> NoArgs]
    /\ ret' = [t \in Tasks |-> NoRet]
    /\ acked' = {}
    /\ rt' = OffRt /\ idem' = NoIdem
    /\ writers' = 0
    /\ closed' = None
    /\ UNCHANGED <<synced, open_res, flushed, gen, others>>

(* ----------------------------- add_range ------------------------------ *)

\* filter.contains(&write_buf[0..8])
BloomFilter_contains(filter, bytes) == decode_be_u64(bytes) \in filter.contains

\* Faulty variant of bloom_skips: the filter is never consulted.
bloom_skips_never(bloom_filter, field_id) == FALSE

\* The `continue` of add_range: a filter is supplied and does not hold the id.
bloom_skips(bloom_filter, field_id) ==
    /\ bloom_filter.some
    /\ ~BloomFilter_contains(bloom_filter, to_be_bytes(field_id))

\* A task calls add_range(field_ids, time_range, bloom_filter).
add_range_call(t, field_ids, time_range, bloom_filter) ==
    /\ inst = "open" /\ pc[t] = "idle"
    /\ pc' = [pc EXCEPT ![t] = "ar_lock"]
    /\ args' = [args EXCEPT ![t] =
                  [NoArgs EXCEPT !.op = "add_range", !.field_ids = field_ids,
                                 !.time_range = time_range,
                                 !.bloom_filter = bloom_filter, !.idx = 1]]
    /\ rt' = (IF rt.st = "fresh" THEN rt ELSE OffRt)
    /\ idem' = (IF /\ idem.st = "one"
                   /\ idem.field_ids = field_ids
                   /\ idem.time_range = time_range
                   /\ idem.bloom_filter = bloom_filter
                THEN [idem EXCEPT !.st = "again"]
                ELSE NoIdem)
    /\ lost' = {}
    /\ closed' = None
    /\ UNCHANGED <<disk, object, locks, ret, acked, flushed, gen, writers, others>>

\* Faulty variant of add_range_lock: the call goes on without waiting for
\* the writer mutex to be free.
add_range_lock_unguarded(t) ==
    /\ pc[t] = "ar_lock"
    /\ writer_lock' = t
    /\ pc' = [pc EXCEPT ![t] = "ar_open"]
    /\ args' = [args EXCEPT ![t].file0 = file, ![t].map0 = tombstones]
    /\ UNCHANGED <<disk, object, map_lock, ret, history, others>>

\* self.writer.lock().await
add_range_lock(t) ==
    /\ pc[t] = "ar_lock" /\ writer_lock = NoTask
    /\ writer_lock' = t
    /\ pc' = [pc EXCEPT ![t] = "ar_open"]
    /\ args' = [args EXCEPT ![t].file0 = file, ![t].map0 = tombstones]
    /\ UNCHANGED <<disk, object, map_lock, ret, history, others>>

\* add_range returns: the writer guard is dropped and the history is updated.
add_range_return(t, res) ==
    /\ pc' = [pc EXCEPT ![t] = "done"]
    /\ ret' = [ret EXCEPT ![t] = [res |-> res, val |-> <<>>]]
    /\ writer_lock' = NoTask
    /\ acked' = (IF res = "Ok"
                 THEN acked \cup
                      {<<f, args[t].time_range>> :
                          f \in {args[t].field_ids[i] :
                                   i \in {j \in 1..Len(args[t].field_ids) :
                                            ~bloom_skips(args[t].bloom_filter,
                                                         args[t].field_ids[j])}}}
                 ELSE acked)
    /\ rt' = (IF res = "Ok" /\ rt.st = "fresh" /\ ~args[t].bloom_filter.some
              THEN [st |-> "added", field_ids |-> args[t].field_ids,
                    time_range |-> args[t].time_range]
              ELSE OffRt)
    /\ idem' = (IF res # "Ok" THEN NoIdem
                ELSE IF idem.st = "again"
                THEN [idem EXCEPT !.st = "two"]
                ELSE [st |-> "one", field_ids |-> args[t].field_ids,
                      time_range |-> args[t].time_range,
                      bloom_filter |-> args[t].bloom_filter,
                      map1 |-> tombstones, file1 |-> file])
    /\ UNCHANGED <<flushed, lost, gen, writers, closed, others>>

\* if writer_lock.is_none() { *writer_lock = Some(Writer::open(..).await?) }
add_range_open_writer(t) ==
    /\ pc[t] = "ar_open"
    /\ \/ /\ writer = "Some"
          /\ pc' = [pc EXCEPT ![t] = "ar_loop"]
          /\ UNCHANGED <<disk, object, locks, args, ret, history, others>>
       \/ /\ writer = "None"
          /\ writer' = "Some" /\ exists' = TRUE
          /\ writers' = writers + 1
          /\ pc' = [pc EXCEPT ![t] = "ar_loop"]
          /\ UNCHANGED <<file, synced, inst, open_res, tombstones, locks,
                         args, ret, acked, flushed, lost, rt, idem, gen, closed, others>>
       \/ /\ writer = "None"                      \* Writer::open failed
          /\ add_range_return(t, "Err")
          /\ UNCHANGED <<disk, object, map_lock, args>>

\* Faulty variant of add_range_iter: the entry is pushed before the record is
\* written, so a failed write leaves it in the map.
add_range_iter_push_first(t) ==
    /\ pc[t] = "ar_loop"
    /\ LET a == args[t] IN
       \/ /\ a.idx > Len(a.field_ids)
          /\ add_range_return(t, "Ok")
          /\ UNCHANGED <<disk, object, map_lock, args>>
       \/ /\ a.idx <= Len(a.field_ids)
          /\ bloom_skips(a.bloom_filter, a.field_ids[a.idx])
          /\ args' = [args EXCEPT ![t].idx = a.idx + 1]
          /\ UNCHANGED <<disk, object, locks, pc, ret, history, others>>
       \/ /\ a.idx <= Len(a.field_ids)
          /\ ~bloom_skips(a.bloom_filter, a.field_ids[a.idx])
          /\ file' = Append(file, Record(write_buf(a.field_ids[a.idx], a.time_range), "ok"))
          /\ pc' = [pc EXCEPT ![t] = "ar_tlock"]
          /\ UNCHANGED <<exists, synced, object, locks, args, ret, history, others>>
       \/ /\ a.idx <= Len(a.field_ids)
          /\ ~bloom_skips(a.bloom_filter, a.field_ids[a.idx])
          /\ tombstones' = entry_push(tombstones, a.field_ids[a.idx], a.time_range)
          /\ add_range_return(t, "Err")
          /\ UNCHANGED <<disk, inst, open_res, writer, map_lock, args>>

\* One turn of `for field_id in field_ids.iter()` up to the record write, or
\* the end of the loop.
add_range_iter(t) ==
    /\ pc[t] = "ar_loop"
    /\ LET a == args[t] IN
       \/ /\ a.idx > Len(a.field_ids)             \* Ok(())
          /\ add_range_return(t, "Ok")
          /\ UNCHANGED <<disk, object, map_lock, args>>
       \/ /\ a.idx <= Len(a.field_ids)
          /\ bloom_skips(a.bloom_filter, a.field_ids[a.idx])
          /\ args' = [args EXCEPT ![t].idx = a.idx + 1]
          /\ UNCHANGED <<disk, object, locks, pc, ret, history, others>>
       \/ /\ a.idx <= Len(a.field_ids)
          /\ ~bloom_skips(a.bloom_filter, a.field_ids[a.idx])
          /\ file' = Append(file, Record(write_buf(a.field_ids[a.idx], a.time_range), "ok"))
          /\ pc' = [pc EXCEPT ![t] = "ar_tlock"]
          /\ UNCHANGED <<exists, synced, object, locks, args, ret, history, others>>
       \/ /\ a.idx <= Len(a.field_ids)
          /\ ~bloom_skips(a.bloom_filter, a.field_ids[a.idx])
          /\ add_range_return(t, "Err")           \* write_record(..).await? failed
          /\ UNCHANGED <<disk, object, map_lock, args>>

\* self.tombstones.lock()
add_range_tombstones_lock(t) ==
    /\ pc[t] = "ar_tlock" /\ map_lock = NoTask
    /\ map_lock' = t
    /\ pc' = [pc EXCEPT ![t] = "ar_push"]
    /\ UNCHANGED <<disk, object, writer_lock, args, ret, history, others>>

\* Faulty variant of add_range_push: the guard of the map outlives the statement and
\* is held into the next turn of the loop.
add_range_push_keep_guard(t) ==
    /\ pc[t] = "ar_push" /\ map_lock = t
    /\ tombstones' = entry_push(tombstones, args[t].field_ids[args[t].idx],
                                args[t].time_range)
    /\ args' = [args EXCEPT ![t].idx = args[t].idx + 1]
    /\ pc' = [pc EXCEPT ![t] = "ar_loop"]
    /\ UNCHANGED <<disk, inst, open_res, writer, locks, ret, history, others>>

\* .entry(*field_id).or_default().push(*time_range); the guard is dropped.
add_range_push(t) ==
    /\ pc[t] = "ar_push" /\ map_lock = t
    /\ tombstones' = entry_push(tombstones, args[t].field_ids[args[t].idx],
                                args[t].time_range)
    /\ map_lock' = NoTask
    /\ args' = [args EXCEPT ![t].idx = args[t].idx + 1]
    /\ pc' = [pc EXCEPT ![t] = "ar_loop"]
    /\ UNCHANGED <<disk, inst, open_res, writer, writer_lock, ret, history, others>>

(* ------------------------------- flush -------------------------------- *)

flush_call(t) ==
    /\ inst = "open" /\ pc[t] = "idle"
    /\ pc' = [pc EXCEPT ![t] = "fl_lock"]
    /\ args' = [args EXCEPT ![t] = [NoArgs EXCEPT !.op = "flush"]]
    /\ UNCHANGED <<disk, object, locks, ret, history, others>>

\* self.writer.lock().await
flush_lock(t) ==
    /\ pc[t] = "fl_lock" /\ writer_lock = NoTask
    /\ writer_lock' = t
    /\ pc' = [pc EXCEPT ![t] = "fl_sync"]
    /\ UNCHANGED <<disk, object, map_lock, args, ret, history, others>>

\* flush returns: the writer guard is dropped and the history is updated.
flush_return(t, res) ==
    /\ pc' = [pc EXCEPT ![t] = "done"]
    /\ ret' = [ret EXCEPT ![t] = [res |-> res, val |-> <<>>]]
    /\ writer_lock' = NoTask
    /\ flushed' = (IF res = "Ok" THEN flushed \cup acked ELSE flushed)
    /\ rt' = (IF res = "Ok" /\ rt.st = "added" THEN [rt EXCEPT !.st = "flushed"]
              ELSE OffRt)
    /\ UNCHANGED <<acked, lost, idem, gen, writers, closed, others>>

\* Faulty variant of flush_sync: Ok(()) without w.sync().
flush_sync_unsynced(t) ==
    /\ pc[t] = "fl_sync"
    /\ flush_return(t, "Ok")
    /\ UNCHANGED <<disk, object, map_lock, args>>

\* if let Some(w) = .. { w.sync().await?; } Ok(())
flush_sync(t) ==
    /\ pc[t] = "fl_sync"
    /\ \/ /\ writer = "None"
          /\ flush_return(t, "Ok")
          /\ UNCHANGED <<disk, object, map_lock, args>>
       \/ /\ writer = "Some"
          /\ synced' = Len(file)
          /\ flush_return(t, "Ok")
          /\ UNCHANGED <<file, exists, object, map_lock, args>>
       \/ /\ writer = "Some"                      \* w.sync().await? failed
          /\ flush_return(t, "Err")
          /\ UNCHANGED <<disk, object, map_lock, args>>

(* ------------------------- read-only operations ----------------------- *)

\* A task calls an operation that reads the map under the tombstones mutex.
read_call(t, op, field_id, time_range, data_block) ==
    /\ inst = "open" /\ pc[t] = "idle"
    /\ pc' = [pc EXCEPT ![t] = "rd_lock"]
    /\ args' = [args EXCEPT ![t] =
                  [NoArgs EXCEPT !.op = op, !.field_id = field_id,
                                 !.time_range = time_range,
                                 !.data_block = data_block]]
    /\ UNCHANGED <<disk, object, locks, ret, history, others>>

is_empty_call(t) ==
    read_call(t, "is_empty", 0, TimeRange_new(0, 0), <<>>)

get_cloned_time_ranges_call(t, field_id) ==
    read_call(t, "get_cloned_time_ranges", field_id, TimeRange_new(0, 0), <<>>)

overlaps_call(t, field_id, time_range) ==
    read_call(t, "overlaps", field_id, time_range, <<>>)

get_overlapped_time_ranges_call(t, field_id, time_range) ==
    read_call(t, "get_overlapped_time_ranges", field_id, time_range, <<>>)

\* The two block operations read data_block.time_range() before they lock:
\* an empty block returns without taking the mutex.
block_call(t, op, field_id, data_block) ==
    IF DataBlock_time_range(data_block).some
    THEN read_call(t, op, field_id, TimeRange_new(0, 0), data_block)
    ELSE /\ inst = "open" /\ pc[t] = "idle"
         /\ pc' = [pc EXCEPT ![t] = "done"]
         /\ args' = [args EXCEPT ![t] =
                       [NoArgs EXCEPT !.op = op, !.field_id = field_id,
                                      !.data_block = data_block]]
         /\ ret' = [ret EXCEPT ![t] =
                      [res |-> "Ok",
                       val |-> IF op = "data_block_exclude_tombstones"
                               THEN data_block ELSE None]]
         /\ UNCHANGED <<disk, object, locks, history, others>>

data_block_exclude_tombstones_call(t, field_id, data_block) ==
    block_call(t, "data_block_exclude_tombstones", field_id, data_block)

data_block_exclude_tombstones_new_call(t, field_id, data_block) ==
    block_call(t, "data_block_exclude_tombstones_new", field_id, data_block)

\* self.tombstones.lock() of a read-only operation
tombstones_lock(t) ==
    /\ pc[t] = "rd_lock" /\ map_lock = NoTask
    /\ map_lock' = t
    /\ pc' = [pc EXCEPT ![t] = "rd_held"]
    /\ UNCHANGED <<disk, object, writer_lock, args, ret, history, others>>

\* What a read-only operation returns from the map it locked.
read_value(a, m) ==
    CASE a.op = "is_empty" -> is_empty(m)
      [] a.op = "get_cloned_time_ranges" -> get_cloned_time_ranges(m, a.field_id)
      [] a.op = "overlaps" -> overlaps(m, a.field_id, a.time_range)
      [] a.op = "get_overlapped_time_ranges" ->
            get_overlapped_time_ranges(m, a.field_id, a.time_range)
      [] a.op = "data_block_exclude_tombstones" ->
            data_block_exclude_tombstones(m, a.field_id, a.data_block)
      [] a.op = "data_block_exclude_tombstones_new" ->
            data_block_exclude_tombstones_new(m, a.field_id, a.data_block)

\* The operation computes its result and its guard is dropped.
read_finish(t) ==
    /\ pc[t] = "rd_held" /\ map_lock = t
    /\ ret' = [ret EXCEPT ![t] = [res |-> "Ok", val |-> read_value(args[t], tombstones)]]
    /\ map_lock' = NoTask
    /\ pc' = [pc EXCEPT ![t] = "done"]
    /\ UNCHANGED <<disk, object, writer_lock, args, history, others>>

\* The caller takes the result; the task is free for its next call.
task_return(t) ==
    /\ pc[t] = "done"
    /\ pc' = [pc EXCEPT ![t] = "idle"]
    /\ args' = [args EXCEPT ![t] = NoArgs]
    /\ ret' = [ret EXCEPT ![t] = NoRet]
    /\ UNCHANGED <<disk, object, locks, history, others>>

(* --------------------------- specifications --------------------------- *)

\* Arguments of the calls.
AddFieldIds == {<<>>, <<1>>, <<2>>, <<1, 1>>, <<1, 2>>, <<2, 1>>}

AddRanges == {TimeRange_new(MinTs, 0), TimeRange_new(1, MaxTs)}

Blooms == {NoBloom, Bloom({1})}

ReadRanges == {TimeRange_new(0, 0), TimeRange_new(MaxTs, 1)}

ReadBlocks == {<<>>, <<0>>, <<0, 1>>, <<MinTs, 1, MaxTs>>}

\* Records the add_range calls in progress may still write.
InFlight ==
    LET n(t) == IF args[t].op = "add_range" /\ pc[t] \notin {"idle", "done"}
                THEN Len(args[t].field_ids) ELSE 0
    IN n(1) + n(2)

\* A call with these field ids keeps the file within max records.
Room(field_ids, max) == Len(file) + InFlight + Len(field_ids) <= max

\* The steps of the operations of one task.
task_step(t) ==
    \/ add_range_lock(t)
    \/ add_range_open_writer(t)
    \/ add_range_iter(t)
    \/ add_range_tombstones_lock(t)
    \/ add_range_push(t)
    \/ flush_lock(t)
    \/ flush_sync(t)
    \/ tombstones_lock(t)
    \/ read_finish(t)
    \/ task_return(t)

\* The read-only calls of one task.
read_calls(t) ==
    \/ is_empty_call(t)
    \/ \E f \in FieldIds : get_cloned_time_ranges_call(t, f)
    \/ \E f \in FieldIds, q \in ReadRanges : overlaps_call(t, f, q)
    \/ \E f \in FieldIds, q \in ReadRanges : get_overlapped_time_ranges_call(t, f, q)
    \/ \E f \in FieldIds, d \in ReadBlocks : data_block_exclude_tombstones_call(t, f, d)
    \/ \E f \in FieldIds, d \in ReadBlocks : data_block_exclude_tombstones_new_call(t, f, d)

\* Spec: one caller at a time adds and flushes tombstones on a directory
\* that starts empty; the instance is dropped and reopened, the machine
\* crashes.
Next ==
    \/ open_ok
    \/ open_err
    \/ drop
    \/ crash
    \/ \E f \in AddFieldIds, r \in AddRanges, b \in Blooms :
          Room(f, MaxRecords) /\ add_range_call(1, f, r, b)
    \/ flush_call(1)
    \/ add_range_lock(1)
    \/ add_range_open_writer(1)
    \/ add_range_iter(1)
    \/ add_range_tombstones_lock(1)
    \/ add_range_push(1)
    \/ flush_lock(1)
    \/ flush_sync(1)
    \/ task_return(1)

Spec == Init /\ [][Next]_vars

\* SpecLoad: a tombstone file of any content is found on disk, good and
\* damaged records mixed; it is opened and read.
DiskRanges == AddRanges \cup {TimeRange_new(MaxTs, 0), TimeRange_new(0, 0)}

DiskRecords ==
    {Record(write_buf(f, r), st) : f \in {1, 2}, r \in DiskRanges, st \in {"ok", "crc", "io"}}
    \cup {Record(SubSeq(write_buf(f, r), 1, ENTRY_LEN - 1), "ok") : f \in {1}, r \in AddRanges}

DiskFiles == UNION {[1..n -> DiskRecords] : n \in 0..MaxFileLen}

InitLoad ==
    /\ file \in DiskFiles
    /\ exists = TRUE
    /\ InitCommon

NextLoad ==
    \/ open_ok
    \/ open_err
    \/ open_load_err
    \/ drop
    \/ read_calls(1)
    \/ tombstones_lock(1)
    \/ read_finish(1)
    \/ task_return(1)

SpecLoad == InitLoad /\ [][NextLoad]_vars

\* SpecConc: two tasks call the operations of one instance concurrently.
ConcFieldIds == {<<1, 2>>, <<2>>}

ConcRanges == {TimeRange_new(0, 1)}

InitConc ==
    /\ file = <<>>
    /\ exists = FALSE
    /\ InitCommon

NextConc ==
    \/ open_ok
    \/ \E t \in Tasks :
          \/ \E f \in ConcFieldIds, r \in ConcRanges, b \in Blooms :
                Room(f, MaxConcRecords) /\ add_range_call(t, f, r, b)
          \/ flush_call(t)
          \/ is_empty_call(t)
          \/ get_cloned_time_ranges_call(t, 1)
          \/ overlaps_call(t, 1, TimeRange_new(0, 0))
          \/ get_overlapped_time_ranges_call(t, 1, TimeRange_new(0, 0))
          \/ data_block_exclude_tombstones_call(t, 1, <<0, 1>>)
          \/ data_block_exclude_tombstones_new_call(t, 1, <<0, 1>>)
          \/ task_step(t)

SpecConc == InitConc /\ [][NextConc]_vars

(* ---------------------- CopyVnodeTask::execute ------------------------ *)

tombstone_vars == <<disk, object, locks, tasks, history>>

VnodeIds == 1..MaxVnodeId

NodeIds == 1..MaxNodeId

ReplSetIds == 1..MaxReplSetId

\* VnodeManagerCmdType::AddRaftFollower(replica_id, node_id)
AddRaftFollower(replica_id, node_id) ==
    [type |-> "AddRaftFollower", id |-> replica_id, node_id |-> node_id]

\* VnodeManagerCmdType::Copy(vnode_id, node_id)
Copy(vnode_id, node_id) ==
    [type |-> "Copy", id |-> vnode_id, node_id |-> node_id]

\* The metadata the lookups read: some vnodes, each in a replica set.
VnodeInfos ==
    UNION {[S -> [repl_set_id : ReplSetIds]] : S \in SUBSET VnodeIds}

\* execute(stmt) is called with stmt = CopyVnode { vnode_id, node_id }.
execute_call(vnode_id, node_id) ==
    /\ exec.pc = "idle"
    /\ exec' = [NoExec EXCEPT !.pc = "start", !.vnode_id = vnode_id, !.node_id = node_id]
    /\ lookups' = 0
    /\ cmds' = <<>>
    /\ UNCHANGED <<using_raft, vnode_infos, tombstone_vars, net_vars, vs_vars>>

\* if coord.using_raft_replication() { .. } else { .. }
execute_branch ==
    /\ exec.pc = "start"
    /\ exec' = [exec EXCEPT !.pc = IF using_raft THEN "lookup" ELSE "copy"]
    /\ UNCHANGED <<using_raft, vnode_infos, lookups, cmds, tombstone_vars, net_vars, vs_vars>>

\* Faulty variant of execute_lookup: a failed lookup is not returned, and the
\* run goes on with the default replica-set id.
execute_lookup_default ==
    /\ exec.pc = "lookup"
    /\ lookups' = lookups + 1
    /\ \/ /\ exec.vnode_id \in DOMAIN vnode_infos
          /\ exec' = [exec EXCEPT !.pc = "add_follower", !.lookup_res = "Ok",
                                  !.replica_id = vnode_infos[exec.vnode_id].repl_set_id]
       \/ exec' = [exec EXCEPT !.pc = "add_follower", !.lookup_res = "Err"]
    /\ UNCHANGED <<using_raft, vnode_infos, cmds, tombstone_vars, net_vars, vs_vars>>

\* coordinator::get_vnode_all_info(meta, tenant, vnode_id).await?
execute_lookup ==
    /\ exec.pc = "lookup"
    /\ lookups' = lookups + 1
    /\ \/ /\ exec.vnode_id \in DOMAIN vnode_infos
          /\ exec' = [exec EXCEPT !.pc = "add_follower", !.lookup_res = "Ok",
                                  !.replica_id = vnode_infos[exec.vnode_id].repl_set_id]
       \/ exec' = [exec EXCEPT !.pc = "done", !.lookup_res = "Err", !.res = "Err"]
    /\ UNCHANGED <<using_raft, vnode_infos, cmds, tombstone_vars, net_vars, vs_vars>>

\* Faulty variant of execute_add_follower: the vnode id is passed where the
\* replica-set id belongs.
execute_add_follower_vnode ==
    /\ exec.pc = "add_follower"
    /\ cmds' = Append(cmds, AddRaftFollower(exec.vnode_id, exec.node_id))
    /\ \E res \in {"Ok", "Err"} :
          exec' = [exec EXCEPT !.pc = "done", !.cmd_res = res, !.res = res]
    /\ UNCHANGED <<using_raft, vnode_infos, lookups, tombstone_vars, net_vars, vs_vars>>

\* coord.vnode_manager(tenant, AddRaftFollower(replica_id, node_id)).await?
execute_add_follower ==
    /\ exec.pc = "add_follower"
    /\ cmds' = Append(cmds, AddRaftFollower(exec.replica_id, exec.node_id))
    /\ \E res \in {"Ok", "Err"} :
          exec' = [exec EXCEPT !.pc = "done", !.cmd_res = res, !.res = res]
    /\ UNCHANGED <<using_raft, vnode_infos, lookups, tombstone_vars, net_vars, vs_vars>>

\* coord.vnode_manager(tenant, Copy(vnode_id, node_id)).await?
execute_copy ==
    /\ exec.pc = "copy"
    /\ cmds' = Append(cmds, Copy(exec.vnode_id, exec.node_id))
    /\ \E res \in {"Ok", "Err"} :
          exec' = [exec EXCEPT !.pc = "done", !.cmd_res = res, !.res = res]
    /\ UNCHANGED <<using_raft, vnode_infos, lookups, tombstone_vars, net_vars, vs_vars>>

\* The caller has the result of execute.
execute_return ==
    /\ exec.pc = "done"
    /\ exec' = NoExec
    /\ UNCHANGED <<using_raft, vnode_infos, lookups, cmds, tombstone_vars, net_vars, vs_vars>>

\* SpecCopy: CopyVnode statements are executed one after the other on a
\* coordinator with or without raft replication, over any metadata.
InitCopy ==
    /\ file = <<>>
    /\ exists = FALSE
    /\ InitTombstone
    /\ using_raft \in BOOLEAN
    /\ vnode_infos \in VnodeInfos
    /\ lookups = 0
    /\ cmds = <<>>
    /\ exec = NoExec
    /\ InitNet
    /\ InitVersionSet

NextCopy ==
    \/ \E v \in VnodeIds, n \in NodeIds : execute_call(v, n)
    \/ execute_branch
    \/ execute_lookup
    \/ execute_add_follower
    \/ execute_copy
    \/ execute_return

SpecCopy == InitCopy /\ [][NextCopy]_vars

(* ---------------------- NetworkConn, TargetClient --------------------- *)

\* The RaftNodeInfo values of the targets: two replica groups at one
\* address, one of them also at another address.
RaftNodeInfo(address, group_id) == [address |-> address, group_id |-> group_id]

TargetNodes ==
    {RaftNodeInfo("a", 1), RaftNodeInfo("a", 2), RaftNodeInfo("b", 2)}

\* The RaftNodeId values of the targets.
TargetIds == {3, 4}

RpcKinds == {"vote", "append_entries", "install_snapshot"}

\* What can go wrong in an RPC, or "ok".
RpcCauses == {"connect", "serialize", "transport", "decode", "remote", "ok"}

NoRpc ==
    [pc |-> "idle", kind |-> "none", channel |-> None, msg |-> None,
     cause |-> "none", res |-> [tag |-> "none", target |-> 0]]

\* The Channel connect() returns for an address.
Channel(addr, id) == [addr |-> addr, id |-> id]

\* Faulty variant of Request: the id of the target stands where the group
\* id belongs.
Request_target_id(client, kind, channel) ==
    [kind |-> kind, group_id |-> client.target, channel |-> channel]

\* tonic::Request::new(Raft..Req { data, group_id: self.target_node.group_id })
\* passed to the client made of the channel.
Request(client, kind, channel) ==
    [kind |-> kind, group_id |-> client.target_node.group_id, channel |-> channel]

\* Faulty variant of Classify: a response that does not decode is reported
\* as an error of the remote node.
Classify_decode_remote(client, cause) ==
    CASE cause \in {"connect", "serialize", "transport"} ->
            [tag |-> "Network", target |-> 0]
      [] cause \in {"decode", "remote"} -> [tag |-> "RemoteError", target |-> client.target]
      [] cause = "ok" -> [tag |-> "Ok", target |-> 0]

\* The result of an RPC: every map_err(.. RPCError::Network ..) and the last
\* res.map_err(.. RPCError::RemoteError(RemoteError::new(self.target, e))).
Classify(client, cause) ==
    CASE cause \in {"connect", "serialize", "transport", "decode"} ->
            [tag |-> "Network", target |-> 0]
      [] cause = "remote" -> [tag |-> "RemoteError", target |-> client.target]
      [] cause = "ok" -> [tag |-> "Ok", target |-> 0]

\* Faulty variant of new_client: the client gets a NetworkConn of its own
\* (NetworkConn::new) where the code clones self.
new_client_own_conn(target, node) ==
    /\ Len(clients) < MaxClients
    /\ conn_maps' = Append(conn_maps, EmptyMap)
    /\ clients' = Append(clients, [target |-> target, target_node |-> node,
                                   conn |-> Len(conn_maps) + 1])
    /\ rpc' = Append(rpc, NoRpc)
    /\ UNCHANGED <<dials, called, dialled, tombstone_vars, copy_vars, vs_vars>>

\* NetworkConn::new_client(target, node): conn is self.clone(), which shares
\* the conn_map.
new_client(target, node) ==
    /\ Len(clients) < MaxClients
    /\ clients' = Append(clients, [target |-> target, target_node |-> node,
                                   conn |-> TheConn])
    /\ rpc' = Append(rpc, NoRpc)
    /\ UNCHANGED <<conn_maps, dials, called, dialled, tombstone_vars, copy_vars, vs_vars>>

\* Connections the RPCs in progress may still dial.
MayDial == Cardinality({c \in 1..Len(rpc) : rpc[c].pc \in {"get_conn", "connect"}})

\* A send_* method of client c is called (&mut self: one RPC at a time).
send_call(c, kind) ==
    /\ rpc[c].pc = "idle"
    /\ dials + MayDial < MaxDials
    /\ rpc' = [rpc EXCEPT ![c] = [NoRpc EXCEPT !.pc = "get_conn", !.kind = kind]]
    /\ called' = called \cup {clients[c].target_node.address}
    /\ UNCHANGED <<conn_maps, clients, dials, dialled, tombstone_vars, copy_vars, vs_vars>>

send_vote(c) == send_call(c, "vote")

send_append_entries(c) == send_call(c, "append_entries")

send_install_snapshot(c) == send_call(c, "install_snapshot")

\* get_conn: if let Some(val) = self.conn_map.read().get(addr) { return Ok(val.clone()) }
get_conn_read(c) ==
    /\ rpc[c].pc = "get_conn"
    /\ LET addr == clients[c].target_node.address
           conn_map == conn_maps[clients[c].conn]
       IN rpc' = [rpc EXCEPT ![c] =
                    IF addr \in DOMAIN conn_map
                    THEN [@ EXCEPT !.pc = "send", !.channel = Some(conn_map[addr])]
                    ELSE [@ EXCEPT !.pc = "connect"]]
    /\ UNCHANGED <<conn_maps, clients, dials, called, dialled, tombstone_vars, copy_vars, vs_vars>>

\* Faulty variant of get_conn_connect: a failed dial is remembered in the
\* map, as a channel that was never connected.
get_conn_connect_cache_failure(c) ==
    /\ rpc[c].pc = "connect"
    /\ dialled' = dialled \cup {clients[c].target_node.address}
    /\ \/ /\ dials' = dials + 1
          /\ rpc' = [rpc EXCEPT ![c] =
                       [@ EXCEPT !.pc = "insert",
                                 !.channel = Some(Channel(clients[c].target_node.address,
                                                          dials + 1))]]
          /\ UNCHANGED conn_maps
       \/ /\ rpc' = [rpc EXCEPT ![c] =
                       [@ EXCEPT !.pc = "done", !.cause = "connect",
                                 !.res = Classify(clients[c], "connect")]]
          /\ LET addr == clients[c].target_node.address
                 conn_map == conn_maps[clients[c].conn]
             IN conn_maps' = [conn_maps EXCEPT ![clients[c].conn] =
                                [a \in (DOMAIN conn_map) \cup {addr} |->
                                    IF a = addr THEN Channel(addr, 0) ELSE conn_map[a]]]
          /\ UNCHANGED dials
    /\ UNCHANGED <<clients, called, tombstone_vars, copy_vars, vs_vars>>

\* get_conn: Endpoint::from_shared(..)?.connect().await?; an error makes the
\* RPC return RPCError::Network.
get_conn_connect(c) ==
    /\ rpc[c].pc = "connect"
    /\ dialled' = dialled \cup {clients[c].target_node.address}
    /\ \/ /\ dials' = dials + 1
          /\ rpc' = [rpc EXCEPT ![c] =
                       [@ EXCEPT !.pc = "insert",
                                 !.channel = Some(Channel(clients[c].target_node.address,
                                                          dials + 1))]]
       \/ /\ rpc' = [rpc EXCEPT ![c] =
                       [@ EXCEPT !.pc = "done", !.cause = "connect",
                                 !.res = Classify(clients[c], "connect")]]
          /\ UNCHANGED dials
    /\ UNCHANGED <<conn_maps, clients, called, tombstone_vars, copy_vars, vs_vars>>

\* Faulty variant of get_conn_insert: a channel stored meanwhile is kept and
\* returned (entry(addr).or_insert(channel)).
get_conn_insert_keep_first(c) ==
    /\ rpc[c].pc = "insert"
    /\ LET addr == clients[c].target_node.address
           conn_map == conn_maps[clients[c].conn]
           kept == IF addr \in DOMAIN conn_map THEN conn_map[addr] ELSE rpc[c].channel.val
       IN /\ conn_maps' = [conn_maps EXCEPT ![clients[c].conn] =
                             [a \in (DOMAIN conn_map) \cup {addr} |->
                                 IF a = addr THEN kept ELSE conn_map[a]]]
          /\ rpc' = [rpc EXCEPT ![c] = [@ EXCEPT !.pc = "send", !.channel = Some(kept)]]
    /\ UNCHANGED <<clients, dials, called, dialled, tombstone_vars, copy_vars, vs_vars>>

\* get_conn: self.conn_map.write().insert(addr.to_string(), channel.clone())
get_conn_insert(c) ==
    /\ rpc[c].pc = "insert"
    /\ LET addr == clients[c].target_node.address
           conn_map == conn_maps[clients[c].conn]
       IN conn_maps' = [conn_maps EXCEPT ![clients[c].conn] =
                          [a \in (DOMAIN conn_map) \cup {addr} |->
                              IF a = addr THEN rpc[c].channel.val ELSE conn_map[a]]]
    /\ rpc' = [rpc EXCEPT ![c] = [@ EXCEPT !.pc = "send"]]
    /\ UNCHANGED <<clients, dials, called, dialled, tombstone_vars, copy_vars, vs_vars>>

\* The rest of a send_* method: the request is serialized, sent over the
\* channel with the timeout, and the response is decoded.
send_request(c) ==
    /\ rpc[c].pc = "send"
    /\ \E cause \in RpcCauses \ {"connect"} :
          rpc' = [rpc EXCEPT ![c] =
                    [@ EXCEPT !.pc = "done", !.cause = cause,
                              !.msg = IF cause = "serialize" THEN None
                                      ELSE Some(Request(clients[c], rpc[c].kind,
                                                        rpc[c].channel.val)),
                              !.res = Classify(clients[c], cause)]]
    /\ UNCHANGED <<conn_maps, clients, dials, called, dialled, tombstone_vars, copy_vars, vs_vars>>

\* The caller has the result of the RPC.
send_return(c) ==
    /\ rpc[c].pc = "done"
    /\ rpc' = [rpc EXCEPT ![c] = NoRpc]
    /\ UNCHANGED <<conn_maps, clients, dials, called, dialled, tombstone_vars, copy_vars, vs_vars>>

\* SpecNet: clients are created from one NetworkConn and send RPCs
\* concurrently.
NextNet ==
    \/ \E target \in TargetIds, node \in TargetNodes : new_client(target, node)
    \/ \E c \in 1..Len(clients) :
          \/ send_vote(c)
          \/ send_append_entries(c)
          \/ send_install_snapshot(c)
          \/ get_conn_read(c)
          \/ get_conn_connect(c)
          \/ get_conn_insert(c)
          \/ send_request(c)
          \/ send_return(c)

SpecNet == Init /\ [][NextNet]_vars

(* ----------------------------- VersionSet ----------------------------- *)

\* A Database as snapshot sees it: its version edits, in order, and the bloom
\* filter of each of its column files.
NoDatabase == [id |-> 0, edits |-> <<>>, files |-> EmptyMap]

\* dbs.entry(owner).or_insert(..), dbs.remove(&owner): the map with one key
\* set or removed.
map_insert(m, k, v) == [x \in (DOMAIN m) \cup {k} |-> IF x = k THEN v ELSE m[x]]

map_remove(m, k) == [x \in (DOMAIN m) \ {k} |-> m[x]]

\* HashMap::insert of every entry of `more`.
map_extend(m, more) ==
    [x \in (DOMAIN m) \cup (DOMAIN more) |-> IF x \in DOMAIN more THEN more[x] ELSE m[x]]

\* Option<Arc<RwLock<Database>>>: the handle of a database, or None.
Handle(id) == [some |-> TRUE, id |-> id]

NoHandle == [some |-> FALSE, id |-> 0]

\* VersionSet::db_exists
db_exists(owner) == owner \in DOMAIN dbs

\* VersionSet::get_db
get_db(owner) == IF owner \in DOMAIN dbs THEN Handle(dbs[owner].id) ELSE NoHandle

\* Faulty variant of create_db: the new database is stored with insert and
\* takes the place of one stored under the owner.
create_db_replace(owner) ==
    /\ snap.pc = "idle"
    /\ \/ /\ vs_call' = [op |-> "create_db", owner |-> owner, res |-> "Err", handle |-> 0]
          /\ UNCHANGED <<dbs, made>>
       \/ /\ made < MaxCreated
          /\ made' = made + 1
          /\ dbs' = map_insert(dbs, owner, [NoDatabase EXCEPT !.id = made + 1])
          /\ vs_call' = [op |-> "create_db", owner |-> owner, res |-> "Ok",
                         handle |-> made + 1]
    /\ UNCHANGED <<db_locks, snap, next_id, vs_new, tombstone_vars, copy_vars, net_vars>>

\* VersionSet::create_db (&mut self: no snapshot borrows the set). The
\* argument of or_insert is evaluated first: the factory creates a database
\* or fails, whether the owner is stored or not.
create_db(owner) ==
    /\ snap.pc = "idle"
    /\ \/ /\ vs_call' = [op |-> "create_db", owner |-> owner, res |-> "Err", handle |-> 0]
          /\ UNCHANGED <<dbs, made>>
       \/ /\ made < MaxCreated
          /\ made' = made + 1
          /\ dbs' = (IF owner \in DOMAIN dbs THEN dbs
                     ELSE map_insert(dbs, owner, [NoDatabase EXCEPT !.id = made + 1]))
          /\ vs_call' = [op |-> "create_db", owner |-> owner, res |-> "Ok",
                         handle |-> dbs'[owner].id]
    /\ UNCHANGED <<db_locks, snap, next_id, vs_new, tombstone_vars, copy_vars, net_vars>>

\* VersionSet::delete_db (&mut self): the removed handle, or None.
delete_db(owner) ==
    /\ snap.pc = "idle"
    /\ dbs' = map_remove(dbs, owner)
    /\ vs_call' = [op |-> "delete_db", owner |-> owner,
                   res |-> IF owner \in DOMAIN dbs THEN "Some" ELSE "None",
                   handle |-> get_db(owner).id]
    /\ UNCHANGED <<db_locks, snap, next_id, made, vs_new, tombstone_vars, copy_vars, net_vars>>

\* A writer of a Database (db.write().await) adds a version edit, with a new
\* column file or without; it waits for the readers to leave.
db_write(owner, with_file) ==
    /\ owner \in DOMAIN dbs
    /\ db_locks[owner].readers = 0 /\ ~db_locks[owner].writer
    /\ next_id < MaxEdits
    /\ next_id' = next_id + 1
    /\ dbs' = [dbs EXCEPT ![owner] =
                 [id |-> @.id,
                  edits |-> Append(@.edits, next_id + 1),
                  files |-> IF with_file
                            THEN map_insert(@.files, next_id + 1, Bloom({next_id + 1}))
                            ELSE @.files]]
    /\ snap' = [snap EXCEPT !.stable = (snap.pc = "idle")]
    /\ UNCHANGED <<db_locks, made, vs_call, vs_new, tombstone_vars, copy_vars, net_vars>>

\* VersionSet::snapshot is called: the results are empty and the iterator
\* self.dbs.values() is at its start.
snapshot_call ==
    /\ snap.pc = "idle"
    /\ snap' = [NoSnap EXCEPT !.pc = "iter", !.todo = DOMAIN dbs]
    /\ UNCHANGED <<dbs, db_locks, next_id, made, vs_call, vs_new, tombstone_vars, copy_vars, net_vars>>

\* for db in self.dbs.values() { db.read().await ..: the next database, in
\* the order of the HashMap, is read-locked.
snapshot_read ==
    /\ snap.pc = "iter"
    /\ \E db \in snap.todo :
          /\ ~db_locks[db].writer
          /\ db_locks' = [db_locks EXCEPT ![db].readers = @ + 1]
          /\ snap' = [snap EXCEPT !.pc = "visit", !.cur = db, !.todo = @ \ {db}]
    /\ UNCHANGED <<dbs, next_id, made, vs_call, vs_new, tombstone_vars, copy_vars, net_vars>>

\* Database::snapshot(None, &mut version_edits, &mut file_metas)
Database_snapshot(db, version_edits, file_metas) ==
    [version_edits |-> version_edits \o db.edits,
     file_metas |-> map_extend(file_metas, db.files)]

\* Faulty variant of snapshot_visit: the loop is left after the first
\* database, as the loops that look one tsfamily up are.
snapshot_visit_break ==
    /\ snap.pc = "visit"
    /\ LET out == Database_snapshot(dbs[snap.cur], snap.version_edits, snap.file_metas)
       IN snap' = [snap EXCEPT !.pc = "iter", !.todo = {},
                               !.version_edits = out.version_edits,
                               !.file_metas = out.file_metas,
                               !.visits[snap.cur] = @ + 1]
    /\ db_locks' = [db_locks EXCEPT ![snap.cur].readers = @ - 1]
    /\ UNCHANGED <<dbs, next_id, made, vs_call, vs_new, tombstone_vars, copy_vars, net_vars>>

\* .snapshot(None, &mut version_edits, &mut file_metas).await; the read
\* guard is dropped at the end of the statement.
snapshot_visit ==
    /\ snap.pc = "visit"
    /\ LET out == Database_snapshot(dbs[snap.cur], snap.version_edits, snap.file_metas)
       IN snap' = [snap EXCEPT !.pc = "iter",
                               !.version_edits = out.version_edits,
                               !.file_metas = out.file_metas,
                               !.visits[snap.cur] = @ + 1]
    /\ db_locks' = [db_locks EXCEPT ![snap.cur].readers = @ - 1]
    /\ UNCHANGED <<dbs, next_id, made, vs_call, vs_new, tombstone_vars, copy_vars, net_vars>>

\* The iterator is at its end: (version_edits, file_metas) is returned.
snapshot_finish ==
    /\ snap.pc = "iter" /\ snap.todo = {}
    /\ snap' = [snap EXCEPT !.pc = "done"]
    /\ UNCHANGED <<dbs, db_locks, next_id, made, vs_call, vs_new, tombstone_vars, copy_vars, net_vars>>

\* The caller has the result of snapshot.
snapshot_return ==
    /\ snap.pc = "done"
    /\ snap' = NoSnap
    /\ UNCHANGED <<dbs, db_locks, next_id, made, vs_call, vs_new, tombstone_vars, copy_vars, net_vars>>

\* SpecVersionSet: databases are created, deleted and written, and
\* snapshots are taken while writers go on.
NextVersionSet ==
    \/ \E o \in Owners : create_db(o)
    \/ \E o \in Owners : delete_db(o)
    \/ \E o \in Owners, with_file \in BOOLEAN : db_write(o, with_file)
    \/ snapshot_call
    \/ snapshot_read
    \/ snapshot_visit
    \/ snapshot_finish
    \/ snapshot_return

SpecVersionSet == Init /\ [][NextVersionSet]_vars

(* --------------------------- VersionSet::new -------------------------- *)

TfIds == 1..MaxTfId

\* What the metadata service answers for the owner of a version:
\* tenant_meta(tenant) is None, get_db_schema(database) is Ok(None),
\* Ok(Some(schema)) or Err.
MetaAnswers == {"no_tenant", "no_database", "schema", "error"}

\* ver_set: HashMap<TseriesFamilyId, Arc<Version>>, each Version with its
\* tenant_database().
VerSets == UNION {[S -> Owners] : S \in SUBSET TfIds}

Metas == [Owners -> MetaAnswers]

\* A Database as VersionSet::new sees it: the schema it was created with,
\* the tsfamilies opened in it and the series indexes created in it.
NewDatabase(id, schema) ==
    [id |-> id, schema |-> schema, tsfamilies |-> {}, ts_indexes |-> {}]

\* VersionSet::new(meta, .., ver_set, ..) is called.
new_call(ver_set, meta) ==
    /\ vs_new.pc = "idle"
    /\ vs_new' = [NoNew EXCEPT !.pc = "loop", !.ver_set = ver_set, !.meta = meta,
                               !.todo = DOMAIN ver_set]
    /\ UNCHANGED <<vs_set_vars, tombstone_vars, copy_vars, net_vars>>

\* for ver in ver_set.into_values(): the next version, in the order of the
\* HashMap; after the last one Ok(Self { dbs, .. }).
new_next ==
    /\ vs_new.pc = "loop"
    /\ \/ /\ vs_new.todo = {}
          /\ vs_new' = [vs_new EXCEPT !.pc = "done", !.res = "Ok"]
       \/ \E tf_id \in vs_new.todo :
             vs_new' = [vs_new EXCEPT !.pc = "schema", !.cur = tf_id,
                                      !.todo = @ \ {tf_id}]
    /\ UNCHANGED <<vs_set_vars, tombstone_vars, copy_vars, net_vars>>

\* Faulty variant of new_schema: a tenant or a database the metadata service
\* does not know fails the call.
new_schema_strict ==
    /\ vs_new.pc = "schema"
    /\ LET answer == vs_new.meta[vs_new.ver_set[vs_new.cur]]
       IN vs_new' =
             IF answer = "schema"
             THEN [vs_new EXCEPT !.pc = "create", !.schema = "stored"]
             ELSE [vs_new EXCEPT !.pc = "done", !.res = "Err", !.cause = "meta"]
    /\ UNCHANGED <<vs_set_vars, tombstone_vars, copy_vars, net_vars>>

\* let schema = match meta.tenant_meta(tenant).await { .. }: the stored
\* schema, DatabaseSchema::new(tenant, database) for an unknown tenant or
\* database, or the error of get_db_schema.
new_schema ==
    /\ vs_new.pc = "schema"
    /\ LET answer == vs_new.meta[vs_new.ver_set[vs_new.cur]]
       IN vs_new' =
             IF answer = "error"
             THEN [vs_new EXCEPT !.pc = "done", !.res = "Err", !.cause = "meta"]
             ELSE [vs_new EXCEPT !.pc = "create",
                                 !.schema = IF answer = "schema" THEN "stored"
                                            ELSE "default"]
    /\ UNCHANGED <<vs_set_vars, tombstone_vars, copy_vars, net_vars>>

\* dbs.entry(owner).or_insert(Arc::new(RwLock::new(
\*     db_factory.create_database(schema).await?))): the factory creates a
\* database or fails; the database is stored unless the owner has one.
new_create ==
    /\ vs_new.pc = "create"
    /\ LET owner == vs_new.ver_set[vs_new.cur]
       IN \/ vs_new' = [vs_new EXCEPT !.pc = "done", !.res = "Err", !.cause = "create"]
          \/ vs_new' = [vs_new EXCEPT
                          !.pc = "open", !.made = @ + 1,
                          !.dbs = IF owner \in DOMAIN @ THEN @
                                  ELSE map_insert(@, owner,
                                          NewDatabase(vs_new.made + 1, vs_new.schema))]
    /\ UNCHANGED <<vs_set_vars, tombstone_vars, copy_vars, net_vars>>

\* db.write().await.open_tsfamily(runtime.clone(), ver, ..)
new_open_tsfamily ==
    /\ vs_new.pc = "open"
    /\ LET owner == vs_new.ver_set[vs_new.cur]
       IN vs_new' = [vs_new EXCEPT !.pc = "index",
                                   !.dbs[owner].tsfamilies = @ \cup {vs_new.cur}]
    /\ UNCHANGED <<vs_set_vars, tombstone_vars, copy_vars, net_vars>>

\* db.write().await.get_ts_index_or_add(tf_id).await?
new_ts_index ==
    /\ vs_new.pc = "index"
    /\ LET owner == vs_new.ver_set[vs_new.cur]
       IN \/ vs_new' = [vs_new EXCEPT !.pc = "done", !.res = "Err", !.cause = "index"]
          \/ vs_new' = [vs_new EXCEPT !.pc = "loop",
                                      !.dbs[owner].ts_indexes = @ \cup {vs_new.cur}]
    /\ UNCHANGED <<vs_set_vars, tombstone_vars, copy_vars, net_vars>>

\* The caller has the result of VersionSet::new.
new_return ==
    /\ vs_new.pc = "done"
    /\ vs_new' = NoNew
    /\ UNCHANGED <<vs_set_vars, tombstone_vars, copy_vars, net_vars>>

\* SpecNew: VersionSet::new is called with any versions over any answers of
\* the metadata service.
NextNew ==
    \/ \E ver_set \in VerSets, meta \in Metas : new_call(ver_set, meta)
    \/ new_next
    \/ new_schema
    \/ new_create
    \/ new_open_tsfamily
    \/ new_ts_index
    \/ new_return

SpecNew == Init /\ [][NextNew]_vars

(* ------------------------------- claims ------------------------------- *)

\* The elements of a sequence.
Range(seq) == {seq[i] : i \in 1..Len(seq)}

\* s is a prefix of t.
IsPrefix(s, t) == Len(s) <= Len(t) /\ SubSeq(t, 1, Len(s)) = s

\* C1. Tombstone round trip: on a directory that starts with no tombstone
\* file, after add_range(F, R, None) returned Ok, flush returned Ok, the
\* instance was dropped and TsmTombstone::open was called again, and for
\* every field id f and every range Q (min_ts <= max_ts, as R),
\* overlaps(f, Q) is true exactly when f is in F and Q intersects R.
C1_RoundTrip ==
    rt.st = "reopened" =>
        \A f \in FieldIds, q \in WellFormed :
            overlaps(tombstones, f, q)
                <=> (f \in Range(rt.field_ids) /\ Intersects(q, rt.time_range))

\* A reopened instance after add_range([1, 2] or [2, 1], R, None) and flush.
C1_Witness ==
    /\ rt.st = "reopened" /\ inst = "open" /\ gen = 2
    /\ Range(rt.field_ids) = {1, 2}
    /\ synced = Len(file) /\ Len(file) = 2
    /\ overlaps(tombstones, 1, rt.time_range)
    /\ \E q \in WellFormed : ~overlaps(tombstones, 2, q)

\* C2. No lost tombstone: every tombstone whose add_range returned Ok on
\* the instance is reported by overlaps for every range that intersects
\* it, in every later state of the instance; and no step of the instance
\* removes a key of the in-memory map or shortens or rewrites its Vec.
C2_Kept ==
    inst = "open" =>
        \A e \in acked : \A q \in WellFormed :
            Intersects(q, e[2]) => overlaps(tombstones, e[1], q)

C2_Grows ==
    (inst = "open" /\ inst' = "open") =>
        \A f \in DOMAIN tombstones :
            /\ f \in DOMAIN tombstones'
            /\ IsPrefix(tombstones[f], tombstones'[f])

\* C2. No lost tombstone: C2_Kept holds in every state, and every step
\* satisfies C2_Grows.
C2_NoLostTombstone == []C2_Kept /\ [][C2_Grows]_vars

\* Two add_range calls returned Ok on the instance for the same field id
\* with different ranges, and a flush was called or not.
C2_Witness ==
    /\ inst = "open"
    /\ \E e1, e2 \in acked : e1[1] = e2[1] /\ e1[2] # e2[2]
    /\ pc[1] = "done" /\ args[1].op = "add_range"

\* A timestamp is deleted for a field when a stored entry of that field
\* covers it.
Deleted(m, f, ts) ==
    \E e \in Entries(m) : e[1] = f /\ e[2].min_ts <= ts /\ ts <= e[2].max_ts

\* C3. Tombstone semantics on a block: when data_block_exclude_tombstones(f,
\* block) is done, the block holds exactly those of its original timestamps
\* that no stored entry (f, a, b) covers with a <= t <= b; entries of other
\* field ids remove nothing and an empty block stays as it is.
C3_BlockExclusion ==
    \A t \in Tasks :
        (pc[t] = "done" /\ args[t].op = "data_block_exclude_tombstones") =>
            ret[t].val = SelectSeq(args[t].data_block,
                                   LAMBDA ts : ~Deleted(tombstones, args[t].field_id, ts))

\* A block of three points loses some and keeps some, the map holding a
\* range for the field and an entry for another field that covers a kept
\* point.
C3_Witness ==
    /\ pc[1] = "done" /\ args[1].op = "data_block_exclude_tombstones"
    /\ Len(args[1].data_block) = 3
    /\ Len(ret[1].val) \in {1, 2}
    /\ args[1].field_id \in DOMAIN tombstones
    /\ \E e \in Entries(tombstones) :
          /\ e[1] # args[1].field_id
          /\ e[2].min_ts <= ret[1].val[1] /\ ret[1].val[1] <= e[2].max_ts

\* The answers of overlaps for every field id and every range agree.
SameOverlaps(m1, m2) ==
    \A f \in FieldIds, q \in AllRanges : overlaps(m1, f, q) <=> overlaps(m2, f, q)

\* C4. Tombstone idempotence: when add_range(F, R, bloom) returned Ok and the
\* same call is made again and returns Ok, overlaps answers for every field
\* id and range as it did after the first call, on the live instance and,
\* after flush, drop and open, on the reopened instance compared with a
\* reopening of the file the first call left.
C4_Idempotent ==
    /\ idem.st = "two" => SameOverlaps(tombstones, idem.map1)
    /\ idem.st = "two_reopened" =>
          SameOverlaps(tombstones, load_all(idem.file1, EmptyMap).tombstones)

\* The same add_range of one field id was made twice, then the file was
\* flushed and the instance reopened.
C4_Witness ==
    /\ idem.st = "two_reopened" /\ inst = "open"
    /\ synced = Len(file) /\ Len(file) = 2
    /\ idem.field_ids # <<>>
    /\ Len(idem.file1) = 1
    /\ tombstones # idem.map1


\* The field ids of a call the bloom filter accepts, in call order; all of
\* them when there is no filter.
KeptList(a) ==
    SelectSeq(a.field_ids,
              LAMBDA f : ~a.bloom_filter.some \/ f \in a.bloom_filter.contains)

\* How many times f occurs in a sequence of field ids.
Count(fids, f) == Cardinality({i \in 1..Len(fids) : fids[i] = f})

\* The state an add_range call leaves when it wrote and pushed, in order,
\* one record and one entry for each field id of `fids`.
Added(a, fids) ==
    /\ file = a.file0 \o [i \in 1..Len(fids) |-> Record(write_buf(fids[i], a.time_range), "ok")]
    /\ DOMAIN tombstones = (DOMAIN a.map0) \cup Range(fids)
    /\ \A f \in DOMAIN tombstones :
          tombstones[f] = map_get(a.map0, f) \o [i \in 1..Count(fids, f) |-> a.time_range]

\* C6. Bloom-filter skipping in add_range: when the call has returned Ok, the
\* file has gained one record and the map one entry for each field id of the
\* call that the filter accepts, in call order, and nothing for a field id
\* the filter rejects; without a filter every field id of the call is kept.
C6_BloomSkip ==
    \A t \in Tasks :
        (pc[t] = "done" /\ args[t].op = "add_range" /\ ret[t].res = "Ok") =>
            Added(args[t], KeptList(args[t]))

\* A call with a filter returned Ok, one of its field ids kept and one
\* skipped.
C6_Witness ==
    /\ pc[1] = "done" /\ args[1].op = "add_range" /\ ret[1].res = "Ok"
    /\ args[1].bloom_filter.some
    /\ Len(args[1].field_ids) = 2
    /\ Len(KeptList(args[1])) = 1
    /\ Len(file) = Len(args[1].file0) + 1

\* Only CRC failures damage the file: every record is read as Ok or as a
\* hash-check failure, and holds a whole entry.
OnlyCrcDamage ==
    \A i \in 1..Len(file) :
        file[i].st \in {"ok", "crc"} /\ Len(file[i].data) >= ENTRY_LEN

\* The ranges of the records of field f that pass the CRC, in file order.
GoodRanges(f) ==
    LET good == SelectSeq(file, LAMBDA r : r.st = "ok"
                                  /\ decode_be_u64(Slice(r.data, 0, 8)) = f)
    IN [i \in 1..Len(good) |->
          TimeRange_new(decode_be_i64(Slice(good[i].data, 8, 16)),
                        decode_be_i64(Slice(good[i].data, 16, 24)))]

\* C7. Corruption tolerance on open: when records of the file fail CRC
\* validation (and nothing else is wrong with it), load_all does not make
\* TsmTombstone::open fail, and the map of the opened instance holds exactly
\* the entries of the records that pass the CRC, in file order, those behind
\* a failing record included.
C7_CrcTolerance ==
    OnlyCrcDamage =>
        /\ open_res # "ErrLoad"
        /\ inst = "open" =>
              /\ DOMAIN tombstones \subseteq FieldIds
              /\ \A f \in FieldIds : map_get(tombstones, f) = GoodRanges(f)

\* An opened file whose first record fails the CRC and whose second is good.
C7_Witness ==
    /\ inst = "open" /\ open_res = "Ok"
    /\ Len(file) = 2 /\ file[1].st = "crc" /\ file[2].st = "ok"
    /\ Len(file[2].data) = ENTRY_LEN
    /\ tombstones # EmptyMap

\* Every tombstone acked before a flush that returned Ok is in the map of
\* the instance, the first or one rebuilt by open after a drop or a crash.
C9_FlushedSurvive ==
    inst = "open" => flushed \subseteq Entries(tombstones)

\* Only the sync of flush moves the durable length of the file.
C9_SyncOnlyInFlush ==
    synced' # synced =>
        \E t \in Tasks : pc[t] = "fl_sync" /\ pc'[t] = "done" /\ ret'[t].res = "Ok"

\* C9. flush is the durability barrier: every tombstone whose add_range
\* returned Ok before a flush that returned Ok is present in the map rebuilt
\* by open after a crash at any later point; and no step of add_range syncs
\* the file, only the sync of a flush that returns Ok does.
C9_DurabilityBarrier == []C9_FlushedSurvive /\ [][C9_SyncOnlyInFlush]_vars

\* An instance rebuilt after a crash: it holds the flushed tombstone, and a
\* tombstone whose add_range returned Ok after the flush is absent.
C9_Witness ==
    /\ inst = "open" /\ gen = 2
    /\ flushed # {} /\ flushed \subseteq Entries(tombstones)
    /\ lost # {} /\ lost \cap Entries(tombstones) = {}
    /\ Len(file) = 1 /\ synced = 1

\* The field ids of a call before position idx that the filter accepts.
KeptBefore(a) ==
    KeptList([a EXCEPT !.field_ids = SubSeq(a.field_ids, 1, a.idx - 1)])

\* C10. Partial success of add_range: when the call has returned an error,
\* the file and the map have gained a record and an entry for exactly the
\* kept field ids before the one that failed and nothing for it or the later
\* ones (the failing one is a kept field id when the writer was open); and in
\* every state of an instance the Vec of each field id is a prefix of the
\* ranges of the records written for it, so no entry is in the map without a
\* record whose write returned Ok.
C10_PartialSuccess ==
    /\ \A t \in Tasks :
          (pc[t] = "done" /\ args[t].op = "add_range" /\ ret[t].res = "Err") =>
              /\ Added(args[t], KeptBefore(args[t]))
              /\ writer = "Some" =>
                    /\ args[t].idx <= Len(args[t].field_ids)
                    /\ ~bloom_skips(args[t].bloom_filter,
                                    args[t].field_ids[args[t].idx])
    /\ inst = "open" =>
          \A f \in DOMAIN tombstones : IsPrefix(tombstones[f], GoodRanges(f))

\* The write of the second field id of a call failed after the first was
\* written and pushed.
C10_Witness ==
    /\ pc[1] = "done" /\ args[1].op = "add_range" /\ ret[1].res = "Err"
    /\ writer = "Some"
    /\ args[1].idx = 2 /\ Len(args[1].field_ids) = 2
    /\ Len(file) = Len(args[1].file0) + 1
    /\ tombstones # args[1].map0

\* The positions of a task at an .await of add_range or flush: the writer
\* mutex is requested, or the writer is opened, written or synced.
AtWriterRequest == {"ar_lock", "fl_lock"}

AtAwait == AtWriterRequest \cup {"ar_open", "ar_loop", "fl_sync"}

\* No task requests the writer mutex while it holds the map lock, and the
\* map lock is not held at a suspension point.
C8_Order ==
    \A t \in Tasks : map_lock = t => pc[t] \notin AtAwait

\* A lock is held only by a task inside a call, and that task or, when it
\* waits for the map, the holder of the map can take its next step; when a
\* call is in progress some task can step.
C8_NoDeadlock ==
    /\ \A t \in Tasks :
          /\ map_lock = t => ENABLED task_step(t)
          /\ writer_lock = t =>
                \/ ENABLED task_step(t)
                \/ map_lock \in Tasks \ {t} /\ ENABLED task_step(map_lock)
    /\ (\E t \in Tasks : pc[t] # "idle") => \E t \in Tasks : ENABLED task_step(t)

\* C8. Lock order: in every interleaving of add_range, flush and the
\* read-only operations on one instance, no task requests the writer mutex
\* while it holds the map lock, the map lock is never held across a
\* suspension point, and no deadlock state is reachable: a task that holds a
\* lock is never blocked for good and some task in a call can always step.
C8_LockOrder == C8_Order /\ C8_NoDeadlock

\* Both locks are contended: task 1 holds the writer mutex inside add_range
\* and waits for the map lock, which task 2 holds inside a read.
C8_Witness ==
    /\ writer_lock = 1 /\ pc[1] = "ar_tlock" /\ args[1].op = "add_range"
    /\ map_lock = 2 /\ pc[2] = "rd_held"

\* The steps of the lazy file: open without a file creates none and gives
\* an empty map and no writer; the file comes to exist only in the
\* Writer::open of an add_range, which leaves a writer; flush without a
\* writer returns Ok and changes nothing.
C11_Steps ==
    /\ (inst = "closed" /\ inst' = "open" /\ ~exists) =>
          ~exists' /\ file' = <<>> /\ is_empty(tombstones') /\ writer' = "None"
    /\ (~exists /\ exists') =>
          \E t \in Tasks : /\ pc[t] = "ar_open" /\ args[t].op = "add_range"
                           /\ pc'[t] = "ar_loop" /\ writer' = "Some"
    /\ \A t \in Tasks :
          (pc[t] = "fl_sync" /\ pc'[t] = "done" /\ writer = "None") =>
              /\ ret'[t].res = "Ok"
              /\ UNCHANGED <<file, exists, synced, tombstones, writer>>

\* An instance has opened at most one writer, the one it holds; without a
\* writer there is no file and the map is empty.
C11_OneWriter ==
    inst = "open" =>
        /\ writers <= 1
        /\ writer = "Some" <=> writers = 1
        /\ writer = "None" => ~exists /\ is_empty(tombstones)

\* C11. Lazy tombstone file: TsmTombstone::open on a directory with no
\* tombstone file creates no file and yields an empty map and no writer; the
\* file is first opened by an add_range call; flush before any add_range
\* returns Ok and does nothing; an instance opens at most one writer.
C11_LazyFile == []C11_OneWriter /\ [][C11_Steps]_vars

\* flush returned Ok on an instance opened without a file, before any
\* add_range: still no file, no writer, an empty map.
C11_Witness ==
    /\ inst = "open" /\ open_res = "Ok"
    /\ pc[1] = "done" /\ args[1].op = "flush" /\ ret[1].res = "Ok"
    /\ writer = "None" /\ writers = 0
    /\ ~exists /\ file = <<>> /\ is_empty(tombstones)

\* No add_range call has been made and not yet returned.
NoAddInProgress ==
    \A t \in Tasks : args[t].op = "add_range" => pc[t] \in {"idle", "done"}

\* Every record of the file reads as Ok and holds a whole entry.
Uncorrupted ==
    \A i \in 1..Len(file) : file[i].st = "ok" /\ Len(file[i].data) = ENTRY_LEN

\* C17. The in-memory map mirrors the file: in every state of an instance
\* where no add_range is in progress, the map has a key exactly for the field
\* ids that have records in the file and the Vec of each equals the ranges of
\* its records, one entry per record, in file order; and after flush, drop
\* and open of an uncorrupted file the rebuilt map equals the map before the
\* drop.
C17_MapMirrorsFile ==
    /\ (inst = "open" /\ NoAddInProgress /\ Uncorrupted) =>
          /\ \A f \in FieldIds : map_get(tombstones, f) = GoodRanges(f)
          /\ DOMAIN tombstones = {f \in FieldIds : GoodRanges(f) # <<>>}
    /\ (inst = "open" /\ closed.some /\ Uncorrupted) => tombstones = closed.val

\* A reopened instance whose file holds the same range twice for a field
\* id: two entries, as before the drop.
C17_Witness ==
    /\ inst = "open" /\ gen = 2 /\ closed.some /\ synced = Len(file)
    /\ NoAddInProgress
    /\ \E f \in DOMAIN tombstones :
          /\ Len(tombstones[f]) = 2
          /\ tombstones[f][1] = tombstones[f][2]
          /\ Len(GoodRanges(f)) = 2

\* The positions in the Vec of field f of the stored ranges (a, b) with
\* a <= q.max_ts and b >= q.min_ts.
HitAt(f, q) ==
    {i \in 1..Len(map_get(tombstones, f)) :
        /\ map_get(tombstones, f)[i].min_ts <= q.max_ts
        /\ map_get(tombstones, f)[i].max_ts >= q.min_ts}

\* What the two operations have returned.
C18_Results ==
    \A t \in Tasks :
        /\ (pc[t] = "done" /\ args[t].op = "overlaps") =>
              (ret[t].val <=> HitAt(args[t].field_id, args[t].time_range) # {})
        /\ (pc[t] = "done" /\ args[t].op = "get_overlapped_time_ranges") =>
              LET hits == HitAt(args[t].field_id, args[t].time_range)
                  stored == map_get(tombstones, args[t].field_id)
              IN /\ ret[t].val = None <=> hits = {}
                 /\ hits # {} =>
                       /\ ret[t].val.some
                       /\ Len(ret[t].val.val) = Cardinality(hits)
                       /\ ret[t].val.val =
                             SelectSeq(stored, LAMBDA r : \E i \in hits : stored[i] = r)

\* For every field id and range the two operations agree on the map.
C18_Agree ==
    \A f \in FieldIds, q \in AllRanges :
        /\ overlaps(tombstones, f, q) <=> HitAt(f, q) # {}
        /\ get_overlapped_time_ranges(tombstones, f, q).some <=> overlaps(tombstones, f, q)

\* A read-only operation leaves the map as it is.
C18_ReadOnly ==
    \A t \in Tasks : (pc[t] = "rd_held" /\ pc'[t] = "done") => tombstones' = tombstones

\* C18. overlaps and get_overlapped_time_ranges agree: overlaps(f, Q) is
\* true iff some stored range (a, b) of f has a <= Q.max_ts and
\* b >= Q.min_ts; get_overlapped_time_ranges(f, Q) returns None exactly when
\* overlaps(f, Q) is false and otherwise all and only the stored ranges of f
\* that overlap Q, in insertion order, duplicates kept; neither changes the
\* map.
C18_OverlapsAgree == []C18_Results /\ []C18_Agree /\ [][C18_ReadOnly]_vars

\* get_overlapped_time_ranges returned the two equal ranges stored for the
\* field id.
C18_Witness ==
    /\ pc[1] = "done" /\ args[1].op = "get_overlapped_time_ranges"
    /\ ret[1].val.some /\ Len(ret[1].val.val) = 2
    /\ ret[1].val.val[1] = ret[1].val.val[2]
    /\ overlaps(tombstones, args[1].field_id, args[1].time_range)

\* C19. data_block_exclude_tombstones_new returns None whenever no timestamp
\* of the block falls inside a stored tombstone range of the field; when it
\* returns Some, the returned block is the input minus the tombstoned
\* timestamps. (The code returns Some of the unchanged block when a stored
\* range overlaps the span of the block and covers none of its points.)
C19_ExcludeNew ==
    \A t \in Tasks :
        (pc[t] = "done" /\ args[t].op = "data_block_exclude_tombstones_new") =>
            LET kept == SelectSeq(args[t].data_block,
                                  LAMBDA ts : ~Deleted(tombstones, args[t].field_id, ts))
            IN /\ kept = args[t].data_block => ret[t].val = None
               /\ ret[t].val.some => ret[t].val.val = kept

\* The positions of add_range and flush under the writer mutex.
UnderWriter == {"ar_open", "ar_loop", "ar_tlock", "ar_push", "fl_sync"}

\* The records an add_range call in progress has written: one for each kept
\* field id before position idx, and the one of position idx once written.
Written(a, p) ==
    LET fids == KeptBefore(a) \o
                (IF p \in {"ar_tlock", "ar_push"} THEN <<a.field_ids[a.idx]>> ELSE <<>>)
    IN [i \in 1..Len(fids) |-> Record(write_buf(fids[i], a.time_range), "ok")]

\* C20. Concurrent add_range calls on one instance are serialized by the
\* writer mutex: at most one call is under the mutex, which that call holds;
\* while a call writes, the file is the file it found followed by its own
\* records only, so the records of a call are one contiguous run; and the
\* instance opens the writer once, whatever the number of concurrent first
\* calls.
C20_Serialized ==
    /\ Cardinality({t \in Tasks : pc[t] \in UnderWriter}) <= 1
    /\ \A t \in Tasks :
          pc[t] \in UnderWriter =>
              /\ writer_lock = t
              /\ args[t].op = "add_range" =>
                    file = args[t].file0 \o Written(args[t], pc[t])
    /\ writers <= 1
    /\ writer = "Some" <=> writers = 1

\* Readers are not serialized with add_range: task 2 got true from
\* overlaps(1, ..) while the call add_range([1, 2], ..) of task 1 had written
\* and pushed field id 1 and not yet field id 2, which is not in the map.
C20_Witness ==
    /\ pc[1] \in {"ar_loop", "ar_tlock"} /\ args[1].op = "add_range"
    /\ args[1].field_ids = <<1, 2>> /\ args[1].idx = 2
    /\ ~args[1].bloom_filter.some
    /\ args[1].map0 = EmptyMap /\ writers = 1
    /\ pc[2] = "done" /\ args[2].op = "overlaps" /\ args[2].field_id = 1
    /\ ret[2].val = TRUE
    /\ 2 \notin DOMAIN tombstones

\* C12. CopyVnodeTask::execute issues exactly one vnode-manager command per
\* successful run: with raft replication AddRaftFollower(the repl_set_id the
\* metadata holds for the vnode, node_id) after one metadata lookup, without
\* it Copy(vnode_id, node_id) and no lookup; no run issues two commands, or
\* Copy in raft mode, or a lookup or AddRaftFollower in non-raft mode.
C12_OneCommand ==
    /\ Len(cmds) <= 1
    /\ using_raft => \A i \in 1..Len(cmds) : cmds[i].type = "AddRaftFollower"
    /\ ~using_raft => lookups = 0 /\ \A i \in 1..Len(cmds) : cmds[i].type = "Copy"
    /\ (exec.pc = "done" /\ exec.res = "Ok") =>
          IF using_raft
          THEN /\ lookups = 1
               /\ exec.vnode_id \in DOMAIN vnode_infos
               /\ cmds = <<AddRaftFollower(vnode_infos[exec.vnode_id].repl_set_id,
                                           exec.node_id)>>
          ELSE cmds = <<Copy(exec.vnode_id, exec.node_id)>>

\* A successful run in raft mode for a vnode whose replica-set id differs
\* from the vnode id and the node id.
C12_Witness ==
    /\ exec.pc = "done" /\ exec.res = "Ok" /\ using_raft
    /\ Len(cmds) = 1 /\ cmds[1].type = "AddRaftFollower"
    /\ cmds[1].id # exec.vnode_id /\ cmds[1].id # exec.node_id
    /\ lookups = 1

\* C13. Group-id envelope: every vote, append_entries and install_snapshot
\* request a TargetClient has sent is of the kind of the method called,
\* carries the group_id of the client's target node and went over a channel
\* that was connected to the address of that target node.
C13_GroupIdEnvelope ==
    \A c \in 1..Len(clients) :
        rpc[c].msg.some =>
            /\ rpc[c].msg.val.kind = rpc[c].kind
            /\ rpc[c].msg.val.kind \in RpcKinds
            /\ rpc[c].msg.val.group_id = clients[c].target_node.group_id
            /\ rpc[c].msg.val.channel.addr = clients[c].target_node.address

\* Two clients at one address in different groups have each sent a request
\* with its own group id, the second an install_snapshot.
C13_Witness ==
    /\ Len(clients) = 2
    /\ clients[1].target_node.address = clients[2].target_node.address
    /\ clients[1].target_node.group_id # clients[2].target_node.group_id
    /\ rpc[1].msg.some /\ rpc[2].msg.some
    /\ rpc[2].kind = "install_snapshot"
    /\ rpc[1].msg.val.group_id # rpc[2].msg.val.group_id
    /\ rpc[1].msg.val.channel = rpc[2].msg.val.channel

\* The channels get_conn has stored for an address, in the conn_map of any
\* NetworkConn value.
StoredFor(addr) ==
    {conn_maps[i][addr] : i \in {j \in 1..Len(conn_maps) : addr \in DOMAIN conn_maps[j]}}

\* connect() is called for an address only inside an RPC to it, and the
\* conn_map keeps under each address a channel connected to it.
C14_Lazy ==
    /\ dialled \subseteq called
    /\ \A a \in DOMAIN conn_maps[TheConn] :
          a \in dialled /\ conn_maps[TheConn][a].addr = a

\* A get_conn that starts when the conn_map of the NetworkConn holds the
\* address returns the stored channel and does not dial; no step removes an
\* entry of the conn_map; creating a client dials nothing.
C14_Steps ==
    /\ \A c \in 1..Len(clients) :
          LET addr == clients[c].target_node.address IN
          (rpc[c].pc = "get_conn" /\ rpc'[c].pc # "get_conn"
              /\ StoredFor(addr) # {}) =>
                /\ rpc'[c].pc = "send"
                /\ rpc'[c].channel.some
                /\ rpc'[c].channel.val \in StoredFor(addr)
                /\ dials' = dials /\ dialled' = dialled
    /\ \A a \in DOMAIN conn_maps[TheConn] : a \in DOMAIN conn_maps'[TheConn]
    /\ Len(clients') # Len(clients) => (dials' = dials /\ dialled' = dialled)

\* C14. Connection map: no address is dialled before the first RPC to it;
\* once a channel is stored for an address, every get_conn for that address
\* that starts later, made by any TargetClient created from the NetworkConn,
\* whatever its replica group, returns the stored channel without dialling;
\* entries are never removed from the map.
C14_ConnectionMap == []C14_Lazy /\ [][C14_Steps]_vars

\* The second client, of another replica group at the same address, went
\* through get_conn with the channel the first client dialled and stored:
\* one connection was made.
C14_Witness ==
    /\ Len(clients) = 2
    /\ clients[1].target_node.address = clients[2].target_node.address
    /\ clients[1].target_node.group_id # clients[2].target_node.group_id
    /\ dials = 1
    /\ rpc[1].pc = "done" /\ rpc[1].channel.some
    /\ rpc[2].pc = "send" /\ rpc[2].channel = rpc[1].channel
    /\ conn_maps[TheConn][clients[2].target_node.address] = rpc[2].channel.val

\* C15. RPC failure classification: an RPC that has returned gives
\* RPCError::Network when the connection, the serialization of the request,
\* the transport call (its timeout included) or the decoding of the response
\* failed; RPCError::RemoteError tagged with the target id of the client
\* when the response decoded to a Raft error of the remote node; and Ok only
\* when the response decoded to an Ok value.
C15_Classification ==
    \A c \in 1..Len(clients) :
        rpc[c].pc = "done" =>
            /\ rpc[c].cause \in {"connect", "serialize", "transport", "decode"} =>
                  rpc[c].res.tag = "Network"
            /\ rpc[c].cause = "remote" =>
                  /\ rpc[c].res.tag = "RemoteError"
                  /\ rpc[c].res.target = clients[c].target
            /\ rpc[c].res.tag = "Ok" <=> rpc[c].cause = "ok"
            /\ rpc[c].cause \in RpcCauses
            /\ rpc[c].kind \in RpcKinds

\* One client got RPCError::Network for a response that did not decode,
\* the other RPCError::RemoteError with its target id.
C15_Witness ==
    /\ Len(clients) = 2
    /\ rpc[1].pc = "done" /\ rpc[1].cause = "decode" /\ rpc[1].res.tag = "Network"
    /\ rpc[2].pc = "done" /\ rpc[2].cause = "remote"
    /\ rpc[2].res = [tag |-> "RemoteError", target |-> clients[2].target]
    /\ clients[1].target # clients[2].target
    /\ rpc[1].kind # rpc[2].kind

\* The version edits and the column files of all databases of the set.
AllEdits == UNION {Range(dbs[o].edits) : o \in DOMAIN dbs}

AllFiles == UNION {DOMAIN dbs[o].files : o \in DOMAIN dbs}

RECURSIVE SumEdits(_)
SumEdits(S) ==
    IF S = {} THEN 0
    ELSE LET o == CHOOSE x \in S : TRUE IN Len(dbs[o].edits) + SumEdits(S \ {o})

\* What a snapshot that has returned holds: every database of the set was
\* visited once; when no writer changed a database during the snapshot, the
\* edits returned are the edits of all databases, each once, and file_metas
\* maps the id of every column file of every database to its bloom filter.
C16_Result ==
    snap.pc = "done" =>
        /\ \A o \in Owners : snap.visits[o] = (IF o \in DOMAIN dbs THEN 1 ELSE 0)
        /\ snap.stable =>
              /\ Range(snap.version_edits) = AllEdits
              /\ Len(snap.version_edits) = SumEdits(DOMAIN dbs)
              /\ DOMAIN snap.file_metas = AllFiles
              /\ \A o \in DOMAIN dbs : \A f \in DOMAIN dbs[o].files :
                    snap.file_metas[f] = dbs[o].files[f]

\* The steps of snapshot leave the set and its databases as they are, and
\* no step of it holds a write lock.
C16_Steps ==
    snap' # snap /\ snap'.pc # "idle" /\ snap'.stable = snap.stable =>
        /\ dbs' = dbs
        /\ \A o \in Owners : db_locks'[o].writer = db_locks[o].writer

\* C16. VersionSet::snapshot visits every database in the set exactly once
\* and returns the accumulation of their VersionEdits together with the
\* bloom filter of every file they report, keyed by column-file id; it takes
\* only read locks and leaves the VersionSet and every database unchanged.
C16_Snapshot == []C16_Result /\ [][C16_Steps]_vars

\* A snapshot of two databases returned, each with an edit, one with a
\* column file.
C16_Witness ==
    /\ snap.pc = "done" /\ snap.stable
    /\ Cardinality(DOMAIN dbs) = 2
    /\ \A o \in DOMAIN dbs : dbs[o].edits # <<>>
    /\ Len(snap.version_edits) >= 2
    /\ snap.file_metas # EmptyMap

\* A record read as Ok whose payload is shorter than an entry, and a record
\* whose read fails with an error that is neither Eof nor a hash-check
\* failure.
IsShort(r) == r.st = "ok" /\ Len(r.data) < ENTRY_LEN

IsReadError(r) == r.st = "io"

\* The place of the first record of the file that is short or fails to be
\* read; one past the end when there is none.
StopAt ==
    LET stops == {i \in 1..Len(file) : IsShort(file[i]) \/ IsReadError(file[i])}
    IN IF stops = {} THEN Len(file) + 1
       ELSE CHOOSE i \in stops : \A j \in stops : i <= j

\* The ranges of the records of field f that pass the CRC among the first n
\* records of the file, in file order.
GoodRangesBefore(f, n) ==
    LET good == SelectSeq(SubSeq(file, 1, n),
                          LAMBDA r : r.st = "ok"
                                  /\ decode_be_u64(Slice(r.data, 0, 8)) = f)
    IN [i \in 1..Len(good) |->
          TimeRange_new(decode_be_i64(Slice(good[i].data, 8, 16)),
                        decode_be_i64(Slice(good[i].data, 16, 24)))]

\* C21. Short record on open: when load_all reads a record that passes the
\* CRC but is shorter than an entry, open does not fail in load_all, the map
\* of the opened instance holds the entries of the good records before it
\* and nothing of the records behind it; when the first thing wrong is a
\* read error other than end-of-file and CRC failure, open never returns Ok,
\* and load_all fails for no other reason.
C21_ShortRecord ==
    /\ (StopAt <= Len(file) /\ IsShort(file[StopAt])) =>
          /\ open_res # "ErrLoad"
          /\ inst = "open" =>
                /\ DOMAIN tombstones \subseteq FieldIds
                /\ \A f \in FieldIds :
                      map_get(tombstones, f) = GoodRangesBefore(f, StopAt - 1)
    /\ (StopAt <= Len(file) /\ IsReadError(file[StopAt])) =>
          inst # "open" /\ open_res # "Ok"
    /\ open_res = "ErrLoad" => (StopAt <= Len(file) /\ IsReadError(file[StopAt]))

\* A file that begins with a short record and goes on with a good one was
\* opened: its map is empty.
C21_Witness ==
    /\ inst = "open" /\ open_res = "Ok"
    /\ Len(file) = 2 /\ IsShort(file[1])
    /\ file[2].st = "ok" /\ Len(file[2].data) = ENTRY_LEN
    /\ tombstones = EmptyMap

\* The conn_map client c uses and the address it sends to.
MapOf(c) == conn_maps[clients[c].conn]

AddrOf(c) == clients[c].target_node.address

\* Every stored channel was connected to the address it is stored under,
\* and the channels two calls dialled are two channels.
C22_Channels ==
    /\ \A m \in 1..Len(conn_maps) : \A addr \in DOMAIN conn_maps[m] :
          conn_maps[m][addr].addr = addr /\ conn_maps[m][addr].id \in 1..dials
    /\ \A c, d \in 1..Len(rpc) :
          (c # d /\ rpc[c].pc = "insert" /\ rpc[d].pc = "insert") =>
              rpc[c].channel # rpc[d].channel

\* A call that found the address missing dials, whatever was stored since;
\* its insert puts the channel it dialled under the address, in place of
\* any channel stored since, leaves the other addresses alone, and the call
\* goes on with the channel it dialled.
C22_Steps ==
    \A c \in 1..Len(rpc) :
        /\ (rpc[c].pc = "connect" /\ rpc'[c].pc = "insert") =>
              /\ dials' = dials + 1
              /\ rpc'[c].channel = Some(Channel(AddrOf(c), dials'))
              /\ conn_maps' = conn_maps
        /\ (rpc[c].pc = "insert" /\ rpc'[c] # rpc[c]) =>
              /\ rpc'[c].pc = "send" /\ rpc'[c].channel = rpc[c].channel
              /\ DOMAIN conn_maps'[clients[c].conn] = (DOMAIN MapOf(c)) \cup {AddrOf(c)}
              /\ \A addr \in DOMAIN conn_maps'[clients[c].conn] :
                    conn_maps'[clients[c].conn][addr] =
                        (IF addr = AddrOf(c) THEN rpc[c].channel.val ELSE MapOf(c)[addr])

\* C22. get_conn race: calls of get_conn for an address that is not stored
\* may each dial; each goes on with the channel it dialled, and the map then
\* holds one channel for the address, the one inserted last.
C22_GetConnRace == []C22_Channels /\ [][C22_Steps]_vars

\* Two calls dialled the same address and both went on with their own
\* channel; the map holds the channel that was dialled first and inserted
\* last.
C22_Witness ==
    \E c, d \in 1..Len(rpc) :
        /\ c # d /\ AddrOf(c) = AddrOf(d) /\ clients[c].conn = clients[d].conn
        /\ rpc[c].pc = "send" /\ rpc[d].pc = "send"
        /\ rpc[c].channel.val.id < rpc[d].channel.val.id
        /\ AddrOf(c) \in DOMAIN MapOf(c)
        /\ MapOf(c)[AddrOf(c)] = rpc[c].channel.val

\* No channel is stored that no dial connected.
C23_NoneStored ==
    \A m \in 1..Len(conn_maps) : \A addr \in DOMAIN conn_maps[m] :
        conn_maps[m][addr].id \in 1..dials

\* A dial that fails ends the RPC with the error of get_conn and leaves the
\* maps as they are; a call that does not find its address stored dials,
\* whether the address was dialled before or not.
C23_Steps ==
    \A c \in 1..Len(rpc) :
        /\ (rpc[c].pc = "connect" /\ rpc'[c].pc = "done") =>
              /\ conn_maps' = conn_maps /\ dials' = dials
              /\ rpc'[c].cause = "connect" /\ rpc'[c].channel = None
              /\ rpc'[c].res.tag = "Network"
        /\ (rpc[c].pc = "get_conn" /\ rpc'[c] # rpc[c] /\ AddrOf(c) \notin DOMAIN MapOf(c)) =>
              rpc'[c].pc = "connect"

\* C23. A failed dial is not cached: when get_conn fails it returns its
\* error and leaves the connection map unchanged, so the next get_conn for
\* the address dials again, and the channels of other addresses stay.
C23_FailedDialNotCached == []C23_NoneStored /\ [][C23_Steps]_vars

\* The only client dialled its address before, no dial has succeeded, and
\* it is dialling again.
C23_Witness ==
    /\ Len(clients) = 1
    /\ dials = 0
    /\ AddrOf(1) \in dialled
    /\ rpc[1].pc = "connect"

\* C24. CopyVnodeTask::execute error paths: a run whose metadata lookup
\* failed has issued no command and returns the error, and the lookup of a
\* vnode the metadata does not hold fails; a run whose command failed
\* returns the error; a run returns Ok only after its one command, and in
\* raft mode its lookup, succeeded.
C24_ErrorPaths ==
    /\ exec.lookup_res = "Err" => cmds = <<>> /\ exec.pc = "done" /\ exec.res = "Err"
    /\ (using_raft /\ exec.pc # "idle" /\ exec.vnode_id \notin DOMAIN vnode_infos) =>
          cmds = <<>> /\ exec.res # "Ok"
    /\ exec.cmd_res = "Err" => exec.pc = "done" /\ exec.res = "Err"
    /\ exec.res = "Ok" =>
          /\ exec.pc = "done"
          /\ Len(cmds) = 1 /\ exec.cmd_res = "Ok"
          /\ using_raft => exec.lookup_res = "Ok"
    /\ exec.pc = "done" => exec.res \in {"Ok", "Err"}

\* A run in raft mode for a vnode the metadata does not hold has returned
\* the error of the lookup.
C24_Witness ==
    /\ using_raft /\ exec.pc = "done" /\ exec.res = "Err"
    /\ exec.vnode_id \notin DOMAIN vnode_infos
    /\ exec.lookup_res = "Err" /\ lookups = 1 /\ cmds = <<>>

\* What the last call of create_db or delete_db returned holds of the set
\* it left: after create_db returned Ok the owner exists and get_db returns
\* the handle create_db returned; after delete_db the owner is absent.
C25_Returned ==
    /\ (vs_call.op = "create_db" /\ vs_call.res = "Ok") =>
          db_exists(vs_call.owner) /\ get_db(vs_call.owner) = Handle(vs_call.handle)
    /\ vs_call.op = "delete_db" =>
          ~db_exists(vs_call.owner) /\ get_db(vs_call.owner) = NoHandle

\* A step is a call of create_db or delete_db.
IsVsCall == vs_call' # vs_call \/ made' # made \/ DOMAIN dbs' # DOMAIN dbs

\* No step puts another database under an owner; create_db leaves every
\* stored database as it is, returns the stored handle for a stored owner,
\* and leaves the map as it is when the factory fails; delete_db removes
\* the owner and nothing else.
C25_Steps ==
    /\ \A o \in (DOMAIN dbs) \cap (DOMAIN dbs') : dbs'[o].id = dbs[o].id
    /\ (IsVsCall /\ vs_call'.op = "create_db") =>
          /\ \A o \in DOMAIN dbs : o \in DOMAIN dbs' /\ dbs'[o] = dbs[o]
          /\ DOMAIN dbs' \subseteq (DOMAIN dbs) \cup {vs_call'.owner}
          /\ vs_call'.res = "Err" => dbs' = dbs
          /\ (vs_call'.res = "Ok" /\ vs_call'.owner \in DOMAIN dbs) =>
                dbs' = dbs /\ vs_call'.handle = dbs[vs_call'.owner].id
          /\ (vs_call'.res = "Ok" /\ vs_call'.owner \notin DOMAIN dbs) =>
                \A o \in DOMAIN dbs : dbs[o].id # vs_call'.handle
    /\ (IsVsCall /\ vs_call'.op = "delete_db") =>
          /\ DOMAIN dbs' = (DOMAIN dbs) \ {vs_call'.owner}
          /\ \A o \in DOMAIN dbs' : dbs'[o] = dbs[o]

\* C25. VersionSet::create_db never replaces an existing database: for a
\* registered owner it returns the existing handle and leaves the map
\* unchanged, and a failure of the factory is returned for any owner; after
\* a successful create_db, db_exists is true and get_db returns the same
\* handle; after delete_db both report the owner absent and the other
\* owners are unchanged.
C25_CreateDb == []C25_Returned /\ [][C25_Steps]_vars

\* create_db for an owner that was stored before, with a version edit,
\* returned the stored handle, not the database the factory made last.
C25_Witness ==
    /\ vs_call.op = "create_db" /\ vs_call.res = "Ok"
    /\ db_exists(vs_call.owner)
    /\ dbs[vs_call.owner].edits # <<>>
    /\ vs_call.handle < made
    /\ Cardinality(DOMAIN dbs) = 2

\* The owners of the versions given to the run of VersionSet::new.
GivenOwners == {vs_new.ver_set[t] : t \in DOMAIN vs_new.ver_set}

\* C26. VersionSet::new: on success the set holds one database for each
\* owner among the given versions and no other, two owners have two
\* databases, and every given version's tsfamily is opened, with its series
\* index, in the database of its owner and in no other; a database of a
\* tenant or database the metadata service does not know has the default
\* schema; the call fails with a metadata error when a version's owner has
\* one, and for no other answer of the metadata service.
C26_New ==
    /\ (vs_new.pc = "done" /\ vs_new.res = "Ok") =>
          /\ DOMAIN vs_new.dbs = GivenOwners
          /\ \A o, q \in DOMAIN vs_new.dbs : o # q => vs_new.dbs[o].id # vs_new.dbs[q].id
          /\ \A o \in DOMAIN vs_new.dbs :
                /\ vs_new.dbs[o].tsfamilies =
                       {t \in DOMAIN vs_new.ver_set : vs_new.ver_set[t] = o}
                /\ vs_new.dbs[o].ts_indexes = vs_new.dbs[o].tsfamilies
                /\ vs_new.dbs[o].schema =
                       (IF vs_new.meta[o] = "schema" THEN "stored" ELSE "default")
          /\ \A o \in GivenOwners : vs_new.meta[o] # "error"
    /\ (vs_new.pc = "done" /\ vs_new.res = "Err") =>
          /\ vs_new.cause \in {"meta", "create", "index"}
          /\ vs_new.cause = "meta" <=> vs_new.meta[vs_new.ver_set[vs_new.cur]] = "error"
    /\ vs_new.pc = "done" => vs_new.res \in {"Ok", "Err"}

\* A successful call with three versions of two owners, one of a tenant the
\* metadata service does not know, the other with a stored schema.
C26_Witness ==
    /\ vs_new.pc = "done" /\ vs_new.res = "Ok"
    /\ Cardinality(DOMAIN vs_new.ver_set) = 3
    /\ Cardinality(DOMAIN vs_new.dbs) = 2
    /\ \E o, q \in DOMAIN vs_new.dbs :
          /\ vs_new.meta[o] = "no_tenant" /\ vs_new.meta[q] = "schema"
          /\ Cardinality(vs_new.dbs[o].tsfamilies) = 2
    /\ vs_new.made = 3

(* ------------------------ scenario S3 (scaled) ------------------------ *)

\* The scenario adds S3Rounds rounds (10000 in the test).
S3Rounds == 3

\* Round i of the scenario: add_range([3i+1, 3i+2, 3i+3], [2i, 2i+100], None).
S3FieldIds(i) == <<3 * i + 1, 3 * i + 2, 3 * i + 3>>

S3Range(i) == TimeRange_new(2 * i, 2 * i + 100)

\* The queries of the scenario, as [min_ts, max_ts] and as the test writes
\* them (max_ts first, so min_ts > max_ts).
S3Queries ==
    {TimeRange_new(2, 99), TimeRange_new(3, 100), TimeRange_new(4, 101),
     TimeRange_new(99, 2), TimeRange_new(100, 3), TimeRange_new(101, 4)}

InitS3 ==
    /\ file = <<>>
    /\ exists = FALSE
    /\ InitCommon

\* test_write_read_3: the rounds in order, each started when the file holds
\* the records of the rounds before it, then flush, drop and open, then the
\* overlaps calls.
NextS3 ==
    \/ open_ok
    \/ \E i \in 0..(S3Rounds - 1) :
          /\ gen = 1 /\ Len(file) = 3 * i
          /\ add_range_call(1, S3FieldIds(i), S3Range(i), NoBloom)
    \/ /\ gen = 1 /\ Len(file) = 3 * S3Rounds /\ synced < Len(file)
       /\ flush_call(1)
    \/ /\ gen = 1 /\ synced = 3 * S3Rounds
       /\ drop
    \/ \E f \in 1..3, q \in S3Queries : gen = 2 /\ overlaps_call(1, f, q)
    \/ task_step(1)

SpecS3 == InitS3 /\ [][NextS3]_vars

\* The scenario ran to its end: every round added, flushed, reopened.
S3Done ==
    /\ gen = 2 /\ inst = "open"
    /\ Len(file) = 3 * S3Rounds /\ synced = Len(file)

\* The statement of S3 with its ranges read [min_ts, max_ts]:
\* overlaps(1, [2,99]), overlaps(2, [3,100]) and not overlaps(3, [4,101]).
C5_AsStated ==
    S3Done =>
        /\ overlaps(tombstones, 1, TimeRange_new(2, 99))
        /\ overlaps(tombstones, 2, TimeRange_new(3, 100))
        /\ ~overlaps(tombstones, 3, TimeRange_new(4, 101))

\* C5. Many tombstones (S3), amended: after the rounds, flush and reopen,
\* overlaps(1, [2,99]) and overlaps(2, [3,100]) are true, and so is
\* overlaps(3, [4,101]), the stored range of field 3 being [0,100]; it is
\* false for the range the test passes, min_ts = 101 and max_ts = 4, and no
\* later round adds a range to fields 1, 2 or 3.
C5_ManyTombstones ==
    S3Done =>
        /\ overlaps(tombstones, 1, TimeRange_new(2, 99))
        /\ overlaps(tombstones, 2, TimeRange_new(3, 100))
        /\ overlaps(tombstones, 3, TimeRange_new(4, 101))
        /\ ~overlaps(tombstones, 3, TimeRange_new(101, 4))
        /\ \A f \in 1..3 : map_get(tombstones, f) = <<S3Range(0)>>
        /\ DOMAIN tombstones = 1..(3 * S3Rounds)

\* The reopened instance answered overlaps(3, ..) for the test's range.
C5_Witness ==
    /\ S3Done
    /\ pc[1] = "done" /\ args[1].op = "overlaps"
    /\ args[1].field_id = 3 /\ args[1].time_range = TimeRange_new(101, 4)
    /\ ret[1].val = FALSE

====
